---- MODULE Spec2Model ----
(***************************************************************************)
(* ESP32 energy meter MQTT interface (Firmware/src/main.cpp, V4.2.0).      *)
(*                                                                         *)
(* The firmware is one cooperative loop() plus one interrupt handler per   *)
(* meter channel.  The model keeps the firmware's globals as variables     *)
(* (same names), splits loop() into steps at every place where it reads    *)
(* the clock or the two objects it shares with the interrupt handlers      *)
(* (IRQ_PINs_stored, millsTimeStamp[]), and lets the handlers, the clock   *)
(* and the network run between any two steps.                              *)
(*                                                                         *)
(* Arithmetic.  unsigned long is 32 bits on the ESP32; TLC's integers end  *)
(* at 2^31-1, so unsigned long arithmetic is done modulo 2^ULongBits.      *)
(* The float expression for the power is evaluated in exact rationals and  *)
(* rounded half away from zero, as round() does.                           *)
(***************************************************************************)
EXTENDS Integers, Sequences, FiniteSets, TLC

(***************************************************************************)
(* Bounds of the model.                                                    *)
(***************************************************************************)
NoOfChannels == 2      \* channels modelled (PRIVATE_NO_OF_CHANNELS is 8)
ULongBits    == 28     \* width used for unsigned long (32 on the device)
MaxEdges     == 2      \* meter pulses in the regular part of a timeline
MaxDrops     == 1      \* network failures / losses in one behaviour
MaxSleeps    == 28     \* time checks in a timeline of days

(***************************************************************************)
(* Program constants.                                                      *)
(***************************************************************************)
CONFIGURATON_VERSION  == 5
WIFI_CONNECT_POSTPONE == 30
MQTT_CONNECT_POSTPONE == 30
MIN_CONSUMPTION       == 25
MAX_NUMBER_OF_WRITES  == 65500
SCHEDULE_MINUTE       == 0
SCHEDULE_HOUR         == 0
SNOOZE                == 60
UInt16Mod             == 65536
HourMs                == 3600000   \* (float)(60*60*1000)
BootMillis            == 2000      \* setup() starts with delay(2000)

Chan     == 0 .. NoOfChannels - 1
ULongMod == 2 ^ ULongBits
U(x)     == x % ULongMod           \* a value stored in an unsigned long
NoTime   == U(-1)                  \* getsecondsToNextTimeCheck: return -1

\* privateConfig.h: {1000,1000,1000,1000,1000,100,100,100}; with fewer channels the
\* model keeps one meter of each kind.
private_default_pulse_per_kWh == [c \in Chan |-> IF c = 0 THEN 1000 ELSE 100]
PRIVATE_UPDATE_GOOGLE_SHEET == TRUE
ExpectedVersion == CONFIGURATON_VERSION * 100 + NoOfChannels

RECURSIVE GCD(_, _)
GCD(a, b) == IF b = 0 THEN a ELSE GCD(b, a % b)

\* round(x) for x = n/d >= 0: half away from zero.
RoundDiv(n, d) == (2 * n + d) \div (2 * d)

MaxLong == 2147483647

(***************************************************************************)
(* watt_consumption = round(((float)(60*60*1000) / (float)interval)        *)
(*                          / (float)pulse_per_kWh * 1000)                 *)
(* interval is the unsigned long value the code converts to float.  The    *)
(* quotient 3600000*1000 / (interval*ppk) is reduced by gcd(1000, ppk)     *)
(* first so that it stays inside TLC's integers, and the rounding is done  *)
(* on the exact quotient; the device rounds three float operations, which  *)
(* gives the same watts for the intervals of the scenarios below.  A zero  *)
(* interval divides by zero: the float is +inf and the conversion to long  *)
(* saturates.                                                              *)
(***************************************************************************)
Watt(interval, ppk) ==
    IF interval = 0 THEN MaxLong
    ELSE LET g == GCD(1000, ppk)
         IN  RoundDiv(HourMs * (1000 \div g), interval * (ppk \div g))

(***************************************************************************)
(* State.                                                                  *)
(***************************************************************************)
VARIABLES
    \* shared between the interrupt handlers and loop()
    IRQ_PINs_stored,        \* the set of bits that are 1
    millsTimeStamp,
    \* globals of main.cpp that only setup() and loop() touch
    metaData, meterData, interfaceConfig, numberOfWrites,
    SD_Failed, errorIndex, previousErrorIndex,
    esp32Connected, configurationPublished,
    WiFiConnectAttempt, WiFiConnectPostpone,
    MQTTConnectAttempt, MQTTConnectPostpone,
    timeLastCheckedAt, secondsToNextTimeCheck,
    GlobalIRQ_PIN_index, GoogleSheetMessageIndex,
    \* where loop() is, and its locals
    pc, IRQ_PIN_index, watt_consumption, timeStamp, irqReg,
    \* the SD card
    sdCfg, sdDirs, sdData, sdWrites, sdLeft,
    \* history: a write to the card was attempted after a fault was recorded
    sdLate,
    \* the world: clock, network, time of day, what may still happen
    now, wifiUp, mqttUp, timeSet, env,
    \* what the last step of loop() sent out (MQTT publications, HTTP requests)
    out,
    \* history: what the interrupt handlers and the drain have done so far
    hist

vars == << IRQ_PINs_stored, millsTimeStamp, metaData, meterData, interfaceConfig,
           numberOfWrites, SD_Failed, errorIndex, previousErrorIndex,
           esp32Connected, configurationPublished, WiFiConnectAttempt,
           WiFiConnectPostpone, MQTTConnectAttempt, MQTTConnectPostpone,
           timeLastCheckedAt, secondsToNextTimeCheck, GlobalIRQ_PIN_index,
           GoogleSheetMessageIndex, pc, IRQ_PIN_index, watt_consumption,
           timeStamp, irqReg, sdCfg, sdDirs, sdData, sdWrites, sdLeft,
           sdLate, now, wifiUp, mqttUp, timeSet, env, out, hist >>

millis == now % ULongMod          \* millis(): the low bits of the timer, in ms
sec    == now \div 1000           \* sec(): esp_timer_get_time() / 1000000

(***************************************************************************)
(* The storage code works on the record St: the globals it reads and       *)
(* writes, and the card.  sdLeft is the number of card accesses that still *)
(* succeed (-1: the card never fails); an access on a dead card fails and  *)
(* changes nothing.                                                        *)
(***************************************************************************)
St == [ meterData |-> meterData, interfaceConfig |-> interfaceConfig,
        numberOfWrites |-> numberOfWrites, SD_Failed |-> SD_Failed,
        errorIndex |-> errorIndex, sdCfg |-> sdCfg, sdDirs |-> sdDirs,
        sdData |-> sdData, sdWrites |-> sdWrites, sdLeft |-> sdLeft,
        sdLate |-> sdLate ]

Store(s) ==
    /\ meterData' = s.meterData
    /\ interfaceConfig' = s.interfaceConfig
    /\ numberOfWrites' = s.numberOfWrites
    /\ SD_Failed' = s.SD_Failed
    /\ errorIndex' = s.errorIndex
    /\ sdCfg' = s.sdCfg
    /\ sdDirs' = s.sdDirs
    /\ sdData' = s.sdData
    /\ sdWrites' = s.sdWrites
    /\ sdLeft' = s.sdLeft
    /\ sdLate' = s.sdLate

Alive(s) == s.sdLeft # 0
Touch(s) == IF s.sdLeft > 0 THEN [s EXCEPT !.sdLeft = @ - 1] ELSE s

\* A call that writes to the card (open for writing, write, mkdir, remove) is
\* about to be made.
Attempt(s) == [s EXCEPT !.sdLate = @ \/ s.SD_Failed]

\* A faulty variant of SetError: errorIndex = 1 << bit.
SetErrorOnly(s, bit) == [s EXCEPT !.SD_Failed = TRUE, !.errorIndex = {bit}]

\* SD_Failed = true; bitSet(errorIndex, bit);
SetError(s, bit) == [s EXCEPT !.SD_Failed = TRUE, !.errorIndex = @ \cup {bit}]

\* File contents.  ok = FALSE: the file is there but holds no whole record
\* (opened for writing, which truncates it, and the write did not complete).
ShortCfg  == [ok |-> FALSE, cfg |-> << >>]
ShortData == [ok |-> FALSE, pulseTotal |-> 0, pulseSubTotal |-> 0]
ShortWrites == [ok |-> FALSE, n |-> 0]

\* void writeConfigData()
writeConfigData(s) ==
    IF ~Alive(s) THEN SetError(Attempt(s), 1)
    ELSE LET opened == [Touch(Attempt(s)) EXCEPT !.sdCfg = << ShortCfg >>]
         IN  IF ~Alive(opened) THEN SetError(opened, 2)
             ELSE [Touch(opened) EXCEPT
                     !.sdCfg = << [ok |-> TRUE, cfg |-> << s.interfaceConfig >>] >>]

\* void writeMeterDataFile(uint8_t datafileNumber)
writeMeterDataFile(s, datafileNumber) ==
    LET set == s.interfaceConfig.dataFileSetNumber
        key == << set, datafileNumber >>
    IN  IF ~(Alive(s) /\ set \in s.sdDirs) THEN SetError(Touch(Attempt(s)), 4)
        ELSE LET opened == [Touch(Attempt(s)) EXCEPT
                              !.sdData = (key :> ShortData) @@ @]
             IN  IF ~Alive(opened) THEN SetError(opened, 5)
                 ELSE [Touch(opened) EXCEPT !.sdData =
                         (key :> [ok |-> TRUE,
                                  pulseTotal |-> s.meterData[datafileNumber].pulseTotal,
                                  pulseSubTotal |-> s.meterData[datafileNumber].pulseSubTotal])
                         @@ @]

RECURSIVE WriteAllMeterDataFiles(_, _)
WriteAllMeterDataFiles(s, ii) ==
    IF ii >= NoOfChannels THEN s
    ELSE WriteAllMeterDataFiles(writeMeterDataFile(s, ii), ii + 1)

\* The tail of writeMeterData: the file holding numberOfWrites.  The result of
\* its write() is not looked at.
WriteNumberOfWrites(s) ==
    LET set == s.interfaceConfig.dataFileSetNumber
    IN  IF ~(Alive(s) /\ set \in s.sdDirs) THEN SetError(Touch(Attempt(s)), 6)
        ELSE LET opened == [Touch(Attempt(s)) EXCEPT
                              !.sdWrites = (set :> ShortWrites) @@ @]
             IN  IF ~Alive(opened) THEN opened
                 ELSE [Touch(opened) EXCEPT !.sdWrites =
                         (set :> [ok |-> TRUE, n |-> s.numberOfWrites]) @@ @]

\* A faulty variant of writeMeterData: numberOfWrites is not set back to 0
\* when a new data file set is begun.
writeMeterDataCountingOn(s, datafileNumber) ==
    LET counted == [s EXCEPT !.numberOfWrites = (@ + 1) % UInt16Mod]
        rolled  == [counted EXCEPT
                       !.interfaceConfig.dataFileSetNumber = (@ + 1) % UInt16Mod]
        newSet  == rolled.interfaceConfig.dataFileSetNumber
        written ==
            IF s.numberOfWrites > MAX_NUMBER_OF_WRITES
            THEN IF ~(Alive(rolled) /\ newSet \notin rolled.sdDirs)
                 THEN SetError(Touch(Attempt(rolled)), 3)
                 ELSE LET made == [Touch(Attempt(rolled)) EXCEPT
                                     !.sdDirs = @ \cup {newSet}]
                      IN  WriteAllMeterDataFiles(writeConfigData(made), 0)
            ELSE writeMeterDataFile(counted, datafileNumber)
    IN  WriteNumberOfWrites(written)

\* void writeMeterData(uint8_t datafileNumber)
writeMeterData(s, datafileNumber) ==
    LET counted == [s EXCEPT !.numberOfWrites = (@ + 1) % UInt16Mod]
        rolled  == [counted EXCEPT
                       !.interfaceConfig.dataFileSetNumber = (@ + 1) % UInt16Mod]
        newSet  == rolled.interfaceConfig.dataFileSetNumber
        written ==
            IF s.numberOfWrites > MAX_NUMBER_OF_WRITES
            THEN IF ~(Alive(rolled) /\ newSet \notin rolled.sdDirs)   \* SD.mkdir
                 THEN SetError(Touch(Attempt(rolled)), 3)
                 ELSE LET made == [Touch(Attempt(rolled)) EXCEPT
                                     !.sdDirs = @ \cup {newSet}]
                          cfg  == writeConfigData(made)
                      IN  WriteAllMeterDataFiles([cfg EXCEPT !.numberOfWrites = 0], 0)
            ELSE writeMeterDataFile(counted, datafileNumber)
    IN  WriteNumberOfWrites(written)

\* The for loop of setConfigurationDefaults: "for (set = 0; n == 0; set++)" with
\* the body counting the data files of set.
CountDataFiles(s, set) ==
    IF s.SD_Failed THEN 0
    ELSE Cardinality({iix \in Chan : Alive(s) /\ << set, iix >> \in DOMAIN s.sdData})

RECURSIVE FindDataFileSet(_, _, _)
FindDataFileSet(s, set, numberOfFilesExists) ==
    IF numberOfFilesExists = 0
    THEN FindDataFileSet(s, (set + 1) % UInt16Mod, CountDataFiles(s, set))
    ELSE set

\* A faulty variant of setConfigurationDefaults: pulseTimeCorrection is kept.
setConfigurationDefaultsKeeping(s) ==
    LET cfg == [ structureVersion |-> ExpectedVersion,
                 pulseTimeCorrection |-> s.interfaceConfig.pulseTimeCorrection,
                 dataFileSetNumber |-> FindDataFileSet(s, 0, 1),
                 pulse_per_kWh |-> private_default_pulse_per_kWh ]
        set == [s EXCEPT !.interfaceConfig = cfg]
    IN  IF set.SD_Failed THEN set
        ELSE writeConfigData(IF Alive(set) /\ set.sdCfg # << >>
                             THEN [Touch(Touch(set)) EXCEPT !.sdCfg = << >>]
                             ELSE Touch(set))

\* void setConfigurationDefaults()
setConfigurationDefaults(s) ==
    LET cfg == [ structureVersion |-> ExpectedVersion,
                 pulseTimeCorrection |-> 0,
                 dataFileSetNumber |-> FindDataFileSet(s, 0, 1),
                 pulse_per_kWh |-> private_default_pulse_per_kWh ]
        set == [s EXCEPT !.interfaceConfig = cfg]
    IN  IF set.SD_Failed THEN set
        ELSE LET removed == IF Alive(set) /\ set.sdCfg # << >>
                            THEN [Touch(Touch(set)) EXCEPT !.sdCfg = << >>]
                            ELSE Touch(set)
             IN  writeConfigData(removed)

\* setup(), lines 376-434: mount the card, read the configuration, make the
\* directory of the data file set, read numberOfWrites and the data files.
ReadDataFile(s, ii) ==
    LET key == << s.interfaceConfig.dataFileSetNumber, ii >>
    IN  IF ~(Alive(s) /\ key \in DOMAIN s.sdData) THEN Touch(s)
        ELSE LET opened == Touch(s)
             IN  IF Alive(opened) /\ opened.sdData[key].ok
                 THEN [Touch(opened) EXCEPT !.meterData[ii] =
                         [pulseTotal |-> opened.sdData[key].pulseTotal,
                          pulseSubTotal |-> opened.sdData[key].pulseSubTotal]]
                 ELSE [Touch(opened) EXCEPT !.meterData[ii] =
                         [pulseTotal |-> 0, pulseSubTotal |-> 0]]

RECURSIVE ReadAllDataFiles(_, _)
ReadAllDataFiles(s, ii) ==
    IF ii >= NoOfChannels THEN s
    ELSE ReadAllDataFiles(ReadDataFile(s, ii), ii + 1)

setup(s) ==
    LET begun   == IF Alive(s) THEN Touch(s) ELSE SetError(s, 0)
        cfgRead ==
            IF begun.SD_Failed THEN begun
            ELSE IF ~(Alive(begun) /\ begun.sdCfg # << >>) THEN Touch(begun)
            ELSE LET opened == Touch(begun)
                 IN  IF Alive(opened) /\ opened.sdCfg[1].ok
                     THEN [Touch(opened) EXCEPT
                             !.interfaceConfig = opened.sdCfg[1].cfg[1]]
                     ELSE Touch(opened)
        checked == IF cfgRead.interfaceConfig.structureVersion # ExpectedVersion
                   THEN setConfigurationDefaults(cfgRead)
                   ELSE cfgRead
        set     == checked.interfaceConfig.dataFileSetNumber
        dir     == IF Alive(checked) /\ set \in checked.sdDirs THEN Touch(checked)
                   ELSE LET asked == Attempt(Touch(checked))
                        IN  IF Alive(asked)
                            THEN [Touch(asked) EXCEPT !.sdDirs = @ \cup {set}]
                            ELSE SetError(asked, 3)
        writes  == IF ~(Alive(dir) /\ set \in DOMAIN dir.sdWrites)
                   THEN [Touch(dir) EXCEPT !.numberOfWrites = 0]
                   ELSE LET opened == Touch(dir)
                        IN  IF Alive(opened) /\ opened.sdWrites[set].ok
                            THEN [Touch(opened) EXCEPT
                                    !.numberOfWrites = opened.sdWrites[set].n]
                            ELSE [Touch(opened) EXCEPT !.numberOfWrites = 0]
    IN  ReadAllDataFiles(writes, 0)

(***************************************************************************)
(* What the device sends.  sent says whether the MQTT client was connected *)
(* when publish() was called (publish() fails silently otherwise).         *)
(***************************************************************************)
EvS(e, ch, power, data, sent) ==
    [e |-> e, ch |-> ch, power |-> power, data |-> data, sent |-> sent]
Ev(e, ch, power, data) == EvS(e, ch, power, data, mqttUp)

\* void publishSensorJson(long powerConsumption, uint8_t IRQ_PIN_index)
\* Subtotal and Total are pulses / pulse_per_kWh; the event keeps both parts.
publishSensorJson(s, powerConsumption, c) ==
    Ev("state", c, powerConsumption,
       << s.meterData[c].pulseSubTotal, s.meterData[c].pulseTotal,
          s.interfaceConfig.pulse_per_kWh[c] >>)

\* void publishMqttConfigurations(uint8_t device): three discovery documents
publishMqttConfigurations(device) ==
    << Ev("config", device, 0, << "sensor", "energy" >>),
       Ev("config", device, 0, << "sensor", "power" >>),
       Ev("config", device, 0, << "number", "energy" >>) >>

\* A faulty variant of publish_sketch_version: the loop over the bits stops
\* one bit early.
publish_sketch_versionShort(s) ==
    Ev("sketch_version", -1, 0,
       IF s.SD_Failed THEN s.errorIndex \cap (0 .. 5) ELSE {})

\* void publish_sketch_version(): one error line per bit, if SD_Failed
publish_sketch_version(s) ==
    Ev("sketch_version", -1, 0, IF s.SD_Failed THEN s.errorIndex ELSE {})

\* bool updateGoogleSheets(uint8_t messageIndex): the request, and the status
\* message published when http.GET() is not 0.  It returns true whatever the
\* status is ("if (httpCode = 200)").
updateGoogleSheets(s, messageIndex, httpCode) ==
    << EvS("sheet", messageIndex, 0,
           << [c \in Chan |-> s.meterData[c].pulseTotal],
              [c \in Chan |-> s.meterData[c].pulseSubTotal],
              s.SD_Failed >>,
           httpCode = 200) >>
    \o (IF httpCode # 0 THEN << Ev("status", -1, 0, << httpCode >>) >> ELSE << >>)

updateGoogleSheetsResult(httpCode) == TRUE

\* unsigned long getsecondsToNextTimeCheck(), for the clock reading t (ms);
\* haveTime is the result of getLocalTime().
LocalSeconds(t) == (env.tod0 + t \div 1000) % 86400

\* A faulty variant of SecondsToNextTimeCheck: no day is added when the
\* scheduled time of today has passed.
SecondsToNextTimeCheckToday(tm_hour, tm_min, tm_sec, sc_hour, sc_min) ==
    LET target  == sc_hour * 60 * 60 + sc_min * 60
        current == tm_hour * 60 * 60 + tm_min * 60 + tm_sec
    IN  IF tm_hour = sc_hour /\ tm_min = sc_min THEN 0
        ELSE IF target < current THEN ((current - target) \div 2) + 15
        ELSE ((target - current) \div 2) + 15

\* lines 1142-1154: the result for the local time timeinfo and the schedule
\* sc_hour:sc_min
SecondsToNextTimeCheck(tm_hour, tm_min, tm_sec, sc_hour, sc_min) ==
    LET target  == sc_hour * 60 * 60 + sc_min * 60
        current == tm_hour * 60 * 60 + tm_min * 60 + tm_sec
        dogn    == IF target < current THEN 24 * 60 * 60 ELSE 0
    IN  IF tm_hour = sc_hour /\ tm_min = sc_min THEN 0
        ELSE ((target + dogn - current) \div 2) + 15

\* A faulty variant of getsecondsToNextTimeCheck: the margin is 75 s.
getsecondsToNextTimeCheckWide(haveTime, t) ==
    IF ~haveTime THEN NoTime
    ELSE IF SecondsToNextTimeCheck(LocalSeconds(t) \div 3600,
                                   (LocalSeconds(t) % 3600) \div 60,
                                   LocalSeconds(t) % 60,
                                   SCHEDULE_HOUR, SCHEDULE_MINUTE) = 0
         THEN 0
         ELSE SecondsToNextTimeCheck(LocalSeconds(t) \div 3600,
                                     (LocalSeconds(t) % 3600) \div 60,
                                     LocalSeconds(t) % 60,
                                     SCHEDULE_HOUR, SCHEDULE_MINUTE) + 60

\* A faulty variant of getsecondsToNextTimeCheck: 0 when there is no time.
getsecondsToNextTimeCheckOrZero(haveTime, t) ==
    IF ~haveTime THEN 0
    ELSE SecondsToNextTimeCheck(LocalSeconds(t) \div 3600,
                                (LocalSeconds(t) % 3600) \div 60,
                                LocalSeconds(t) % 60,
                                SCHEDULE_HOUR, SCHEDULE_MINUTE)

getsecondsToNextTimeCheck(haveTime, t) ==
    IF ~haveTime THEN NoTime
    ELSE SecondsToNextTimeCheck(LocalSeconds(t) \div 3600,
                                (LocalSeconds(t) % 3600) \div 60,
                                LocalSeconds(t) % 60,
                                SCHEDULE_HOUR, SCHEDULE_MINUTE)

\* A faulty variant of ResetSubtotals: the totals are zeroed as well.
RECURSIVE ResetCounters(_, _)
ResetCounters(s, ii) ==
    IF ii >= NoOfChannels THEN s
    ELSE LET zeroed == [s EXCEPT !.meterData[ii].pulseSubTotal = 0,
                                 !.meterData[ii].pulseTotal = 0]
         IN  ResetCounters(IF zeroed.SD_Failed THEN zeroed
                           ELSE writeMeterData(zeroed, ii), ii + 1)

\* The loop that zeroes the subtotals (loop() 775-780, mqttCallback 1429-1434).
RECURSIVE ResetSubtotals(_, _)
ResetSubtotals(s, ii) ==
    IF ii >= NoOfChannels THEN s
    ELSE LET zeroed == [s EXCEPT !.meterData[ii].pulseSubTotal = 0]
         IN  ResetSubtotals(IF zeroed.SD_Failed THEN zeroed
                            ELSE writeMeterData(zeroed, ii), ii + 1)

(***************************************************************************)
(* Groups of variables, for UNCHANGED.                                     *)
(***************************************************************************)
storeVars == << meterData, interfaceConfig, numberOfWrites, SD_Failed, errorIndex,
                sdCfg, sdDirs, sdData, sdWrites, sdLeft, sdLate >>
wifiVars  == << WiFiConnectAttempt, WiFiConnectPostpone >>
mqttVars  == << MQTTConnectAttempt, MQTTConnectPostpone >>
schedVars == << timeLastCheckedAt, secondsToNextTimeCheck >>
locals    == << IRQ_PIN_index, watt_consumption, timeStamp, irqReg >>
loopVars  == << metaData, previousErrorIndex, esp32Connected,
                configurationPublished, GlobalIRQ_PIN_index,
                GoogleSheetMessageIndex, pc >>

ZeroFn == [c \in Chan |-> 0]

(***************************************************************************)
(* Power on: every global is zero, the card holds what the scenario says,  *)
(* and setup() has not run.  A scenario fixes what the world may do: how   *)
(* many pulses, clock advances, commands and network failures may happen,  *)
(* by how much the clock advances, which commands arrive, the time of day  *)
(* at power on and whether the time server answers.                        *)
(***************************************************************************)
PowerOn(e, left) ==
    /\ IRQ_PINs_stored = {}
    /\ millsTimeStamp = ZeroFn
    /\ metaData = [c \in Chan |-> [pulseTimeStamp |-> 0, pulseLength |-> 0]]
    /\ meterData = [c \in Chan |-> [pulseTotal |-> 0, pulseSubTotal |-> 0]]
    /\ interfaceConfig = [ structureVersion |-> 0, pulseTimeCorrection |-> 0,
                           dataFileSetNumber |-> 0, pulse_per_kWh |-> ZeroFn ]
    /\ numberOfWrites = 0
    /\ SD_Failed = FALSE
    /\ errorIndex = {}
    /\ previousErrorIndex = {}
    /\ esp32Connected = FALSE
    /\ configurationPublished = [c \in Chan |-> FALSE]
    /\ WiFiConnectAttempt = 0 /\ WiFiConnectPostpone = 0
    /\ MQTTConnectAttempt = 0 /\ MQTTConnectPostpone = 0
    /\ timeLastCheckedAt = 0 /\ secondsToNextTimeCheck = 0
    /\ GlobalIRQ_PIN_index = 0
    /\ GoogleSheetMessageIndex = 1
    /\ pc = "setup"
    /\ IRQ_PIN_index = 0 /\ watt_consumption = 0 /\ timeStamp = 0 /\ irqReg = {}
    /\ sdCfg = e.card.cfg /\ sdDirs = e.card.dirs
    /\ sdData = e.card.data /\ sdWrites = e.card.writes
    /\ sdLeft = left /\ sdLate = FALSE
    /\ now = 0 /\ wifiUp = FALSE /\ mqttUp = FALSE /\ timeSet = FALSE
    /\ env = e
    /\ out = << >>
    /\ hist = [ fresh |-> ZeroFn, merged |-> ZeroFn, lastEdge |-> ZeroFn,
                wifiFailAt |-> -1, mqttFailAt |-> -1,
                zeroed |-> [c \in Chan |-> FALSE],
                gate |-> {}, drained |-> {},
                decay |-> [c \in Chan |-> -1],
                checks |-> 0, restart |-> 0, delivered |-> FALSE, fired |-> -1,
                read |-> {}, stray |-> {}, told |-> ZeroFn,
                heard |-> [kind |-> "none", ch |-> 0, v |-> 0] ]

\* setup()
Setup ==
    /\ pc = "setup"
    /\ now' = now + BootMillis
    /\ Store(setup(St))
    /\ pc' = "wifi"
    /\ out' = << >>
    /\ UNCHANGED << IRQ_PINs_stored, millsTimeStamp, metaData, previousErrorIndex,
                    esp32Connected, configurationPublished, wifiVars, mqttVars,
                    schedVars, GlobalIRQ_PIN_index, GoogleSheetMessageIndex,
                    locals, wifiUp, mqttUp, timeSet, env, hist >>

(***************************************************************************)
(* The world.                                                              *)
(***************************************************************************)
\* A faulty variant of store_IRQ_PIN: the timestamp of the first edge is kept
\* while the flag is set.
store_IRQ_PIN_once(BIT_Reference) ==
    /\ millsTimeStamp' = IF BIT_Reference \in IRQ_PINs_stored THEN millsTimeStamp
                         ELSE [millsTimeStamp EXCEPT ![BIT_Reference] = millis]
    /\ IRQ_PINs_stored' = IRQ_PINs_stored \cup {BIT_Reference}

\* void IRAM_ATTR store_IRQ_PIN(u_int8_t BIT_Reference), run by Ext_INTn_ISR
store_IRQ_PIN(BIT_Reference) ==
    /\ millsTimeStamp' = [millsTimeStamp EXCEPT ![BIT_Reference] = millis]
    /\ IRQ_PINs_stored' = IRQ_PINs_stored \cup {BIT_Reference}

\* What the world does next: env.script is the rest of its timeline.
Due(kind) == env.script # << >> /\ Head(env.script).kind = kind
Done == [env EXCEPT !.script = Tail(@)]

ISR(c) ==
    /\ pc # "setup"
    /\ Due("edge")
    /\ store_IRQ_PIN(c)
    /\ env' = Done
    /\ hist' = [hist EXCEPT !.fresh[c] = @ + 1, !.lastEdge[c] = millis]
    /\ out' = << >>
    /\ UNCHANGED << storeVars, loopVars, wifiVars, mqttVars, schedVars, locals,
                    now, wifiUp, mqttUp, timeSet >>

\* the time to the moment at which the time check of line 763 becomes due
UntilTimeCheck ==
    (U(timeLastCheckedAt + secondsToNextTimeCheck) + 1) * 1000 - now

\* Time passes: d ms, or, for d < 0 and with the time check not yet due, the
\* time to the moment at which it becomes due.  Within a tick marked sync
\* the answer of the time server arrives: from then on getLocalTime succeeds.
Tick ==
    /\ pc # "setup"
    /\ Due("tick")
    /\ (IF Head(env.script).d < 0
        THEN sec <= U(timeLastCheckedAt + secondsToNextTimeCheck)
        ELSE TRUE)
    /\ now' = now + (IF Head(env.script).d < 0 THEN UntilTimeCheck
                     ELSE Head(env.script).d)
    /\ env' = IF "sync" \in DOMAIN Head(env.script)
              THEN [Done EXCEPT !.ntp = TRUE] ELSE Done
    /\ out' = << >>
    /\ UNCHANGED << IRQ_PINs_stored, millsTimeStamp, storeVars, loopVars, wifiVars,
                    mqttVars, schedVars, locals, wifiUp, mqttUp, timeSet, hist >>

\* The access point goes away: WiFi.status() and mqttClient.connected() turn false.
WiFiLost ==
    /\ wifiUp
    /\ env.drops > 0
    /\ wifiUp' = FALSE
    /\ mqttUp' = FALSE
    /\ env' = [env EXCEPT !.drops = @ - 1]
    /\ out' = << >>
    /\ UNCHANGED << IRQ_PINs_stored, millsTimeStamp, storeVars, loopVars, wifiVars,
                    mqttVars, schedVars, locals, now, timeSet, hist >>

\* The broker closes the connection: mqttClient.connected() turns false.
MqttLost ==
    /\ mqttUp
    /\ env.drops > 0
    /\ mqttUp' = FALSE
    /\ env' = [env EXCEPT !.drops = @ - 1]
    /\ out' = << >>
    /\ UNCHANGED << IRQ_PINs_stored, millsTimeStamp, storeVars, loopVars, wifiVars,
                    mqttVars, schedVars, locals, now, wifiUp, timeSet, hist >>

\* The results a connection attempt may have, and the status of an HTTP request.
Outcomes  == IF env.drops > 0 THEN {TRUE, FALSE} ELSE {TRUE}
HttpCodes == IF env.drops > 0 THEN {200, -1} ELSE {200}
Spend(ok) == IF ok THEN env ELSE [env EXCEPT !.drops = @ - 1]

(***************************************************************************)
(* loop(), lines 450-553: connect to WiFi if not connected.  The attempt   *)
(* is made only if no interrupt bit is set.                                *)
(***************************************************************************)
\* A faulty variant of WiFiGate: pending pulses do not hold the attempt back.
WiFiGateOpen ==
    /\ ~wifiUp
    /\ sec > U(WiFiConnectAttempt + WiFiConnectPostpone)

WiFiGate ==
    /\ IRQ_PINs_stored = {}
    /\ ~wifiUp
    /\ sec > U(WiFiConnectAttempt + WiFiConnectPostpone)

WiFiConnect(ok, httpCode) ==
    /\ wifiUp' = ok
    /\ env' = Spend(ok)
    /\ IF ok
       THEN /\ WiFiConnectAttempt' = 0
            /\ WiFiConnectPostpone' = 0
            /\ timeSet' = TRUE                       \* configTime()
            /\ secondsToNextTimeCheck' = getsecondsToNextTimeCheck(env.ntp, now)
            /\ timeLastCheckedAt' = sec
            /\ GoogleSheetMessageIndex' =
                 IF PRIVATE_UPDATE_GOOGLE_SHEET /\ updateGoogleSheetsResult(httpCode)
                 THEN 2 ELSE GoogleSheetMessageIndex
            /\ out' = << EvS("WiFi.begin", -1, 0, << >>, TRUE) >>
                      \o (IF PRIVATE_UPDATE_GOOGLE_SHEET
                          THEN updateGoogleSheets(St, GoogleSheetMessageIndex, httpCode)
                          ELSE << >>)
            /\ hist' = [hist EXCEPT
                          !.gate = IRQ_PINs_stored, !.drained = {},
                          !.delivered = @ \/ (PRIVATE_UPDATE_GOOGLE_SHEET
                                              /\ httpCode = 200)]
            /\ UNCHANGED esp32Connected
       ELSE /\ WiFiConnectAttempt' = sec
            /\ WiFiConnectPostpone' = WIFI_CONNECT_POSTPONE
            /\ esp32Connected' = FALSE
            /\ out' = << EvS("WiFi.begin", -1, 0, << >>, FALSE) >>
            /\ hist' = [hist EXCEPT !.gate = IRQ_PINs_stored, !.drained = {},
                                    !.wifiFailAt = sec]
            /\ UNCHANGED << timeSet, schedVars, GoogleSheetMessageIndex >>

LoopWiFi ==
    /\ pc = "wifi"
    /\ pc' = "mqtt"
    /\ IF WiFiGate
       THEN \E ok \in Outcomes, httpCode \in HttpCodes : WiFiConnect(ok, httpCode)
       ELSE /\ out' = << >>
            /\ hist' = [hist EXCEPT !.gate = IRQ_PINs_stored, !.drained = {}]
            /\ UNCHANGED << wifiUp, env, wifiVars, timeSet, schedVars,
                            GoogleSheetMessageIndex, esp32Connected >>
    /\ UNCHANGED << IRQ_PINs_stored, millsTimeStamp, storeVars, metaData,
                    previousErrorIndex, configurationPublished, GlobalIRQ_PIN_index,
                    mqttVars, locals, now, mqttUp >>

(***************************************************************************)
(* loop(), lines 556-608: connect to the broker if WiFi is connected and   *)
(* no interrupt bit is set.                                                *)
(***************************************************************************)
\* A faulty variant of MQTTGate: the attempt is made a second early.
MQTTGateEarly ==
    /\ IRQ_PINs_stored = {}
    /\ wifiUp
    /\ ~mqttUp
    /\ sec >= U(MQTTConnectAttempt + MQTTConnectPostpone)

MQTTGate ==
    /\ IRQ_PINs_stored = {}
    /\ wifiUp
    /\ ~mqttUp
    /\ sec > U(MQTTConnectAttempt + MQTTConnectPostpone)

\* A faulty variant of MQTTConnect: a failed attempt leaves esp32Connected.
MQTTConnectKeeping(ok) ==
    /\ mqttUp' = ok
    /\ env' = Spend(ok)
    /\ IF ok
       THEN /\ MQTTConnectAttempt' = 0
            /\ MQTTConnectPostpone' = 0
            /\ esp32Connected' = TRUE
            /\ out' = << EvS("mqtt.connect", -1, 0, << >>, TRUE),
                         [publish_sketch_version(St) EXCEPT !.sent = TRUE],
                         EvS("subscribe", -1, 0,
                             << "threshold", "subtotal_reset", "config", "status" >>,
                             TRUE),
                         EvS("online", -1, 0, << "True" >>, TRUE) >>
            /\ UNCHANGED hist
       ELSE /\ MQTTConnectAttempt' = sec
            /\ MQTTConnectPostpone' = MQTT_CONNECT_POSTPONE
            /\ UNCHANGED esp32Connected
            /\ out' = << EvS("mqtt.connect", -1, 0, << >>, FALSE) >>
            /\ hist' = [hist EXCEPT !.mqttFailAt = sec]

MQTTConnect(ok) ==
    /\ mqttUp' = ok
    /\ env' = Spend(ok)
    /\ IF ok
       THEN /\ MQTTConnectAttempt' = 0
            /\ MQTTConnectPostpone' = 0
            /\ esp32Connected' = TRUE
            /\ out' = << EvS("mqtt.connect", -1, 0, << >>, TRUE),
                         [publish_sketch_version(St) EXCEPT !.sent = TRUE],
                         EvS("subscribe", -1, 0,
                             << "threshold", "subtotal_reset", "config", "status" >>,
                             TRUE),
                         EvS("online", -1, 0, << "True" >>, TRUE) >>
            /\ UNCHANGED hist
       ELSE /\ MQTTConnectAttempt' = sec
            /\ MQTTConnectPostpone' = MQTT_CONNECT_POSTPONE
            /\ esp32Connected' = FALSE
            /\ out' = << EvS("mqtt.connect", -1, 0, << >>, FALSE) >>
            /\ hist' = [hist EXCEPT !.mqttFailAt = sec]

LoopMQTT ==
    /\ pc = "mqtt"
    /\ pc' = "service"
    /\ IF MQTTGate
       THEN \E ok \in Outcomes : MQTTConnect(ok)
       ELSE /\ out' = << >>
            /\ hist' = [hist EXCEPT !.gate = @ \cup IRQ_PINs_stored]
            /\ UNCHANGED << mqttUp, env, mqttVars, esp32Connected >>
    /\ UNCHANGED << IRQ_PINs_stored, millsTimeStamp, storeVars, metaData,
                    previousErrorIndex, configurationPublished, GlobalIRQ_PIN_index,
                    GoogleSheetMessageIndex, wifiVars, schedVars, locals, now,
                    wifiUp, timeSet >>

(***************************************************************************)
(* loop(), lines 612-618: mqttClient.loop(), which hands an arrived        *)
(* message to mqttCallback (lines 1388-1444).                              *)
(***************************************************************************)
NoMsg == [kind |-> "none", ch |-> 0, v |-> 0]
Commands ==
    { [kind |-> "threshold", ch |-> 0, v |-> 5],
      [kind |-> "threshold", ch |-> 0, v |-> 0],
      [kind |-> "threshold", ch |-> 1, v |-> 3],
      [kind |-> "threshold", ch |-> NoOfChannels, v |-> 1],
      [kind |-> "config", ch |-> 0, v |-> 25],
      [kind |-> "subtotal_reset", ch |-> 0, v |-> 0],
      [kind |-> "status", ch |-> 0, v |-> 0],
      [kind |-> "restart", ch |-> 0, v |-> 1] }
\* lines 584-594: the topics the client subscribes to; the broker hands over
\* no message of another topic
Subscribed == { "threshold", "subtotal_reset", "config", "status" }
Delivered(msg) == IF msg.kind \in Subscribed THEN msg ELSE NoMsg
Inbox == IF Due("cmd") THEN Commands \cup {NoMsg} ELSE {NoMsg}

\* getIRQ_PIN_reference (lines 1017-1028) returns the number of up to two
\* digits that the topic holds, and mqttCallback uses it as index with no
\* check against PRIVATE_NO_OF_CHANNELS.  With an index past the end, line
\* 1402 reads a word past the end of pulse_per_kWh and writes one past the
\* end of meterData, and publishSensorJson reads there too.  What the words
\* read hold, and which object the word written belongs to, is up to the
\* build: the words read are any of Beyond, and the write is recorded in
\* hist.stray and not as a change of one of the globals named here.
Stray(msg)  == msg.kind = "threshold" /\ msg.ch \notin Chan
Beyond      == {0, 1000}
Reads(msg)  == IF Stray(msg) THEN Beyond \X Beyond ELSE {<< 0, 0 >>}

\* A faulty variant of SetTotal: the periodic count follows the total.
SetTotalAndSubtotal(s, ch, v) ==
    [s EXCEPT !.meterData[ch] =
        [pulseTotal |-> U(v * s.interfaceConfig.pulse_per_kWh[ch]),
         pulseSubTotal |-> U(v * s.interfaceConfig.pulse_per_kWh[ch])]]

\* mqttCallback, topic ".../<ch>/threshold", payload {"Total": v}
SetTotal(s, ch, v) ==
    [s EXCEPT !.meterData[ch].pulseTotal = U(v * s.interfaceConfig.pulse_per_kWh[ch])]

\* mqttCallback, topic ".../config", payload {"pulscorr": v}
SetCorrection(s, v) ==
    writeConfigData([s EXCEPT !.interfaceConfig.pulseTimeCorrection = U(v)])

mqttCallback(msg, httpCode, words) ==
    CASE Stray(msg) ->
           /\ out' = << Ev("state", msg.ch, 0,
                           << words[1], U(msg.v * words[2]), words[2] >>) >>
           /\ UNCHANGED << storeVars, configurationPublished >>
      [] msg.kind = "threshold" ->
           /\ Store(SetTotal(St, msg.ch, msg.v))
           /\ out' = << publishSensorJson(SetTotal(St, msg.ch, msg.v), 0, msg.ch) >>
           /\ UNCHANGED configurationPublished
      [] msg.kind = "config" ->
           /\ Store(SetCorrection(St, msg.v))
           /\ out' = << >>
           /\ UNCHANGED configurationPublished
      [] msg.kind = "subtotal_reset" ->
           /\ Store(ResetSubtotals(St, 0))
           /\ out' = IF PRIVATE_UPDATE_GOOGLE_SHEET
                     THEN updateGoogleSheets(St, 0, httpCode) ELSE << >>
           /\ UNCHANGED configurationPublished
      [] msg.kind = "status" ->
           /\ configurationPublished' = [c \in Chan |-> FALSE]
           /\ out' = << >>
           /\ UNCHANGED storeVars
      [] OTHER ->
           /\ out' = << >>
           /\ UNCHANGED << storeVars, configurationPublished >>

LoopService ==
    /\ pc = "service"
    /\ pc' = "drain"
    /\ IF esp32Connected /\ mqttUp
       THEN \E msg \in Inbox, httpCode \in HttpCodes : \E words \in Reads(msg) :
              /\ mqttCallback(Delivered(msg), httpCode, words)
              /\ env' = IF msg = NoMsg THEN env ELSE Done
              /\ hist' = [hist EXCEPT
                            !.heard = IF msg = NoMsg THEN @ ELSE msg,
                            !.stray = IF Stray(msg) THEN @ \cup {msg.ch} ELSE @,
                            !.delivered = @ \/ ( /\ msg.kind = "subtotal_reset"
                                                 /\ PRIVATE_UPDATE_GOOGLE_SHEET
                                                 /\ httpCode = 200 ),
                            !.restart = IF msg.kind = "restart" THEN @ + 1 ELSE @]
              /\ UNCHANGED esp32Connected
       ELSE /\ esp32Connected' = FALSE
            /\ out' = << >>
            /\ UNCHANGED << storeVars, configurationPublished, env, hist >>
    /\ UNCHANGED << IRQ_PINs_stored, millsTimeStamp, metaData, previousErrorIndex,
                    GlobalIRQ_PIN_index, GoogleSheetMessageIndex, wifiVars, mqttVars,
                    schedVars, locals, now, wifiUp, mqttUp, timeSet >>

(***************************************************************************)
(* loop(), lines 622-688: publish meterData.  The body of the for loop is  *)
(* split at each read of the variables the interrupt handlers write, so    *)
(* that an interrupt is taken between any two of them.                     *)
(***************************************************************************)
quiet == << now, wifiUp, mqttUp, timeSet, env, wifiVars, mqttVars, schedVars,
            previousErrorIndex, esp32Connected, GlobalIRQ_PIN_index,
            GoogleSheetMessageIndex >>

\* line 622
DrainEnter ==
    /\ pc = "drain"
    /\ pc' = IF IRQ_PINs_stored # {} THEN "dTest" ELSE "decay"
    /\ out' = << >>
    /\ UNCHANGED << IRQ_PINs_stored, millsTimeStamp, metaData, storeVars,
                    configurationPublished, locals, quiet, hist >>

\* line 635 (IRQ_PIN_index++) and 685: the next channel, or the end of the loop
NextChannel ==
    IF IRQ_PIN_index + 1 < NoOfChannels
    THEN pc' = "dTest" /\ IRQ_PIN_index' = IRQ_PIN_index + 1
    ELSE pc' = "decay" /\ IRQ_PIN_index' = 0

\* lines 638-645
DrainTest ==
    /\ pc = "dTest"
    /\ IF esp32Connected /\ ~configurationPublished[IRQ_PIN_index]
       THEN /\ out' = publishMqttConfigurations(IRQ_PIN_index)
            /\ configurationPublished' =
                 [configurationPublished EXCEPT ![IRQ_PIN_index] = TRUE]
            /\ hist' = [hist EXCEPT !.told[IRQ_PIN_index] = @ + 1]
       ELSE /\ out' = << >>
            /\ UNCHANGED << configurationPublished, hist >>
    /\ IF IRQ_PIN_index \in IRQ_PINs_stored
       THEN pc' = "dCond" /\ UNCHANGED IRQ_PIN_index
       ELSE NextChannel
    /\ UNCHANGED << IRQ_PINs_stored, millsTimeStamp, metaData, storeVars,
                    watt_consumption, timeStamp, irqReg, quiet >>

\* A faulty variant of DrainCond: a pulseTimeStamp after the new timestamp
\* is not looked for.
DrainCondUnordered ==
    /\ pc = "dCond"
    /\ watt_consumption' = 0
    /\ pc' = IF metaData[IRQ_PIN_index].pulseTimeStamp > 0
             THEN "dPower" ELSE "dCount"
    /\ out' = << >>
    /\ UNCHANGED << IRQ_PINs_stored, millsTimeStamp, metaData, storeVars,
                    configurationPublished, IRQ_PIN_index, timeStamp, irqReg,
                    quiet, hist >>

\* lines 656-657
DrainCond ==
    /\ pc = "dCond"
    /\ watt_consumption' = 0
    /\ pc' = IF /\ metaData[IRQ_PIN_index].pulseTimeStamp > 0
                /\ metaData[IRQ_PIN_index].pulseTimeStamp < millsTimeStamp[IRQ_PIN_index]
             THEN "dPower" ELSE "dCount"
    /\ out' = << >>
    /\ UNCHANGED << IRQ_PINs_stored, millsTimeStamp, metaData, storeVars,
                    configurationPublished, IRQ_PIN_index, timeStamp, irqReg,
                    quiet, hist >>

\* millsTimeStamp[i] - pulseTimeStamp + pulseTimeCorrection, in unsigned long
PulseTime(stamp, c) ==
    U(stamp - metaData[c].pulseTimeStamp + interfaceConfig.pulseTimeCorrection)

\* lines 659-662
DrainPower ==
    /\ pc = "dPower"
    /\ watt_consumption' = Watt(PulseTime(millsTimeStamp[IRQ_PIN_index], IRQ_PIN_index),
                                interfaceConfig.pulse_per_kWh[IRQ_PIN_index])
    /\ pc' = "dLength"
    /\ out' = << >>
    /\ hist' = [hist EXCEPT !.read = @ \cup {millsTimeStamp[IRQ_PIN_index]}]
    /\ UNCHANGED << IRQ_PINs_stored, millsTimeStamp, metaData, storeVars,
                    configurationPublished, IRQ_PIN_index, timeStamp, irqReg,
                    quiet >>

\* lines 664-665
DrainLength ==
    /\ pc = "dLength"
    /\ metaData' = [metaData EXCEPT ![IRQ_PIN_index].pulseLength =
                      PulseTime(millsTimeStamp[IRQ_PIN_index], IRQ_PIN_index)]
    /\ pc' = "dCount"
    /\ out' = << >>
    /\ hist' = [hist EXCEPT !.read = @ \cup {millsTimeStamp[IRQ_PIN_index]}]
    /\ UNCHANGED << IRQ_PINs_stored, millsTimeStamp, storeVars,
                    configurationPublished, locals, quiet >>

\* A faulty variant of Count: a pulse less than 50 ms after the previous one
\* is taken for a bounce and not counted.
CountDebounced(s, c) ==
    LET counted == [s EXCEPT !.meterData[c].pulseTotal = U(@ + 1),
                             !.meterData[c].pulseSubTotal = U(@ + 1)]
    IN  IF metaData[c].pulseTimeStamp > 0
           /\ metaData[c].pulseTimeStamp > U(millsTimeStamp[c] - 50)
        THEN s
        ELSE IF counted.SD_Failed THEN counted ELSE writeMeterData(counted, c)

\* A faulty variant of Count: the data are written whether or not the card
\* has failed.
CountUnguarded(s, c) ==
    writeMeterData([s EXCEPT !.meterData[c].pulseTotal = U(@ + 1),
                             !.meterData[c].pulseSubTotal = U(@ + 1)], c)

\* lines 671-677
Count(s, c) ==
    LET counted == [s EXCEPT !.meterData[c].pulseTotal = U(@ + 1),
                             !.meterData[c].pulseSubTotal = U(@ + 1)]
    IN  IF counted.SD_Failed THEN counted ELSE writeMeterData(counted, c)

\* lines 670-681
DrainCount ==
    /\ pc = "dCount"
    /\ metaData' = [metaData EXCEPT ![IRQ_PIN_index].pulseTimeStamp =
                      millsTimeStamp[IRQ_PIN_index]]
    /\ Store(Count(St, IRQ_PIN_index))
    /\ out' = IF esp32Connected
              THEN << publishSensorJson(Count(St, IRQ_PIN_index),
                                        watt_consumption, IRQ_PIN_index) >>
              ELSE << >>
    /\ pc' = "dLoad"
    /\ hist' = [hist EXCEPT !.fresh[IRQ_PIN_index] = 0,
                            !.merged[IRQ_PIN_index] = hist.fresh[IRQ_PIN_index],
                            !.zeroed[IRQ_PIN_index] = FALSE,
                            !.drained = @ \cup {IRQ_PIN_index},
                            !.read = {},
                            !.decay[IRQ_PIN_index] = -1]
    /\ UNCHANGED << IRQ_PINs_stored, millsTimeStamp, configurationPublished,
                    locals, quiet >>

\* line 683, bitClear(IRQ_PINs_stored, IRQ_PIN_index): value &= ~(1UL << bit)
\* on a volatile byte is a load, an and, and a store.
DrainLoad ==
    /\ pc = "dLoad"
    /\ irqReg' = IRQ_PINs_stored
    /\ pc' = "dStore"
    /\ out' = << >>
    /\ UNCHANGED << IRQ_PINs_stored, millsTimeStamp, metaData, storeVars,
                    configurationPublished, IRQ_PIN_index, watt_consumption,
                    timeStamp, quiet, hist >>

bitClear(value, bit) == value \ {bit}

DrainStore ==
    /\ pc = "dStore"
    /\ IRQ_PINs_stored' = bitClear(irqReg, IRQ_PIN_index)
    /\ irqReg' = {}
    /\ watt_consumption' = 0
    /\ NextChannel
    /\ out' = << >>
    /\ UNCHANGED << millsTimeStamp, metaData, storeVars, configurationPublished,
                    timeStamp, quiet, hist >>

(***************************************************************************)
(* loop(), lines 703-760: pulse time check.                                *)
(***************************************************************************)
\* A faulty variant of DecayEnter: every pass starts at channel 0.
DecayEnterAtZero ==
    /\ pc = "decay"
    /\ timeStamp' = millis
    /\ GlobalIRQ_PIN_index' = 0
    /\ pc' = "check"
    /\ out' = << >>
    /\ UNCHANGED << IRQ_PINs_stored, millsTimeStamp, metaData, storeVars,
                    configurationPublished, IRQ_PIN_index, watt_consumption, irqReg,
                    now, wifiUp, mqttUp, timeSet, env, wifiVars, mqttVars, schedVars,
                    previousErrorIndex, esp32Connected, GoogleSheetMessageIndex,
                    hist >>

\* lines 703-705
DecayEnter ==
    /\ pc = "decay"
    /\ timeStamp' = millis
    /\ GlobalIRQ_PIN_index' =
         IF GlobalIRQ_PIN_index >= NoOfChannels THEN 0 ELSE GlobalIRQ_PIN_index
    /\ pc' = "check"
    /\ out' = << >>
    /\ UNCHANGED << IRQ_PINs_stored, millsTimeStamp, metaData, storeVars,
                    configurationPublished, IRQ_PIN_index, watt_consumption, irqReg,
                    now, wifiUp, mqttUp, timeSet, env, wifiVars, mqttVars, schedVars,
                    previousErrorIndex, esp32Connected, GoogleSheetMessageIndex,
                    hist >>

\* line 728: pulseTimeStamp + (2 * pulseLength) < timeStamp, in unsigned long
Overdue(m, stamp) == U(m.pulseTimeStamp + 2 * m.pulseLength) < stamp

\* A faulty variant of Fictive: no floor.
FictiveUnfloored(m, stamp, c) ==
    Watt(U(stamp - m.pulseTimeStamp + interfaceConfig.pulseTimeCorrection),
         interfaceConfig.pulse_per_kWh[c])

\* lines 731-739: the fictive consumption, 0 below MIN_CONSUMPTION
Fictive(m, stamp, c) ==
    LET w == Watt(U(stamp - m.pulseTimeStamp + interfaceConfig.pulseTimeCorrection),
                  interfaceConfig.pulse_per_kWh[c])
    IN  IF w < MIN_CONSUMPTION THEN 0 ELSE w

\* lines 716-746: what one channel's check publishes and leaves in metaData
PulseTimeCheck(m, stamp, c) ==
    IF m.pulseLength > 0
    THEN IF m.pulseTimeStamp > stamp
         THEN [power |-> << 0 >>, pulseLength |-> 0, floor |-> FALSE]
         ELSE IF Overdue(m, stamp)
              THEN [power |-> << -1 * Fictive(m, stamp, c) >>,
                    pulseLength |-> IF Fictive(m, stamp, c) = 0 THEN 0
                                    ELSE U(m.pulseLength * 2),
                    floor |-> Fictive(m, stamp, c) = 0]
              ELSE [power |-> << >>, pulseLength |-> m.pulseLength, floor |-> FALSE]
    ELSE [power |-> << >>, pulseLength |-> m.pulseLength, floor |-> FALSE]

\* A faulty variant of DecayIter: the pulse time check does not publish the
\* configurations.
DecayIterSilent ==
    /\ pc = "check"
    /\ IF IRQ_PINs_stored = {} /\ GlobalIRQ_PIN_index < NoOfChannels
       THEN LET c == GlobalIRQ_PIN_index
                r == PulseTimeCheck(metaData[c], timeStamp, c)
            IN  /\ metaData' = [metaData EXCEPT ![c].pulseLength = r.pulseLength]
                /\ out' = (IF esp32Connected /\ r.power # << >>
                           THEN << publishSensorJson(St, r.power[1], c) >>
                           ELSE << >>)
                /\ hist' = [hist EXCEPT
                              !.checks = @ + 1,
                              !.zeroed[c] = @ \/ r.floor,
                              !.decay[c] = IF esp32Connected /\ r.power # << >>
                                           THEN -1 * r.power[1] ELSE @]
                /\ GlobalIRQ_PIN_index' = c + 1
                /\ UNCHANGED << pc, timeStamp >>
       ELSE /\ pc' = "sched"
            /\ timeStamp' = 0
            /\ out' = << >>
            /\ hist' = [hist EXCEPT !.checks = 0]
            /\ UNCHANGED << metaData, GlobalIRQ_PIN_index >>
    /\ UNCHANGED << IRQ_PINs_stored, millsTimeStamp, storeVars, IRQ_PIN_index,
                    configurationPublished, watt_consumption, irqReg, now,
                    wifiUp, mqttUp, timeSet, env, wifiVars, mqttVars, schedVars,
                    previousErrorIndex, esp32Connected, GoogleSheetMessageIndex >>

\* lines 707-760: one iteration of the while loop, or its end
DecayIter ==
    /\ pc = "check"
    /\ IF IRQ_PINs_stored = {} /\ GlobalIRQ_PIN_index < NoOfChannels
       THEN LET c == GlobalIRQ_PIN_index
                r == PulseTimeCheck(metaData[c], timeStamp, c)
            IN  /\ configurationPublished' =
                     IF esp32Connected THEN [configurationPublished EXCEPT ![c] = TRUE]
                     ELSE configurationPublished
                /\ metaData' = [metaData EXCEPT ![c].pulseLength = r.pulseLength]
                /\ out' = (IF esp32Connected /\ ~configurationPublished[c]
                           THEN publishMqttConfigurations(c) ELSE << >>)
                          \o (IF esp32Connected /\ r.power # << >>
                              THEN << publishSensorJson(St, r.power[1], c) >>
                              ELSE << >>)
                /\ hist' = [hist EXCEPT
                              !.checks = @ + 1,
                              !.told[c] = IF esp32Connected /\ ~configurationPublished[c]
                                          THEN @ + 1 ELSE @,
                              !.zeroed[c] = @ \/ r.floor,
                              !.decay[c] = IF esp32Connected /\ r.power # << >>
                                           THEN -1 * r.power[1] ELSE @]
                /\ GlobalIRQ_PIN_index' = c + 1
                /\ UNCHANGED << pc, timeStamp >>
       ELSE /\ pc' = "sched"
            /\ timeStamp' = 0
            /\ out' = << >>
            /\ hist' = [hist EXCEPT !.checks = 0]
            /\ UNCHANGED << configurationPublished, metaData, GlobalIRQ_PIN_index >>
    /\ UNCHANGED << IRQ_PINs_stored, millsTimeStamp, storeVars, IRQ_PIN_index,
                    watt_consumption, irqReg, now, wifiUp, mqttUp, timeSet, env,
                    wifiVars, mqttVars, schedVars, previousErrorIndex,
                    esp32Connected, GoogleSheetMessageIndex >>

(***************************************************************************)
(* loop(), lines 763-787: the scheduled update and the error report.       *)
(***************************************************************************)
\* lines 763-767
TimeCheckDue == sec > U(timeLastCheckedAt + secondsToNextTimeCheck)
NextTimeCheck ==
    IF TimeCheckDue THEN getsecondsToNextTimeCheck(timeSet /\ env.ntp, now)
    ELSE secondsToNextTimeCheck

\* the number of the current day, a day beginning at the scheduled time
Occurrence ==
    (env.tod0 + sec + 86400 - (SCHEDULE_HOUR * 3600 + SCHEDULE_MINUTE * 60))
      \div 86400

\* A faulty variant of Rearmed: no cool-down.
RearmedAtOnce == NextTimeCheck

\* lines 769-771: the cool-down
Rearmed == IF NextTimeCheck = 0 THEN SNOOZE ELSE NextTimeCheck

\* A faulty variant of Scheduled: the schedule leaves the subtotals alone.
Unscheduled(s) == s

\* lines 769-781: the state of the counters after the scheduled reset
Scheduled(s) == IF NextTimeCheck = 0 THEN ResetSubtotals(s, 0) ELSE s

LoopSched ==
    /\ pc = "sched"
    /\ pc' = "wifi"
    /\ timeLastCheckedAt' = IF TimeCheckDue THEN sec ELSE timeLastCheckedAt
    /\ secondsToNextTimeCheck' = Rearmed
    /\ Store(Scheduled(St))
    /\ previousErrorIndex' = Scheduled(St).errorIndex
    /\ \E httpCode \in IF NextTimeCheck = 0 /\ wifiUp THEN HttpCodes ELSE {200} :
         out' = (IF NextTimeCheck = 0 /\ PRIVATE_UPDATE_GOOGLE_SHEET /\ wifiUp
                 THEN updateGoogleSheets(St, 0, httpCode) ELSE << >>)
                \o (IF Scheduled(St).errorIndex # previousErrorIndex
                    THEN << publish_sketch_version(Scheduled(St)) >> ELSE << >>)
    /\ hist' = [hist EXCEPT
                  !.fired = IF NextTimeCheck = 0 THEN Occurrence ELSE @,
                  !.delivered = @ \/ (out' # << >> /\ out'[1].e = "sheet"
                                      /\ out'[1].sent)]
    /\ UNCHANGED << IRQ_PINs_stored, millsTimeStamp, metaData, configurationPublished,
                    locals, now, wifiUp, mqttUp, timeSet, env, wifiVars, mqttVars,
                    esp32Connected, GlobalIRQ_PIN_index, GoogleSheetMessageIndex >>

(***************************************************************************)
(* The behaviours.  A scenario fixes the timeline of the world in one      *)
(* behaviour (pulses, on any channel; the time between them; commands),    *)
(* how many network failures there are, the local time of day at power-on, *)
(* whether the time server answers, and the number of card accesses that   *)
(* succeed (-1: the card never fails).  Where the loop is when each thing  *)
(* happens is left open.                                                   *)
(***************************************************************************)
\* What the card holds at power on.  Blank: a card that was never used.
Blank == [cfg |-> << >>, dirs |-> {}, data |-> << >>, writes |-> << >>]

E    == [kind |-> "edge", d |-> 0]
C    == [kind |-> "cmd", d |-> 0]
T(d) == [kind |-> "tick", d |-> d]
Z    == T(-1)

\* n pulses, gap ms apart
RECURSIVE Pulses(_, _)
Pulses(n, gap) == IF n = 1 THEN << E >> ELSE << E, T(gap) >> \o Pulses(n - 1, gap)

\* pulses a second apart and then silence
Steady ==
    [ script |-> Pulses(MaxEdges, 1000) \o << T(2001), T(150000) >>,
      drops |-> 0, tod0 |-> 43200, ntp |-> FALSE, left |-> -1,
      card |-> Blank ]

\* the last pulse bounces
Bounce ==
    [ script |-> << E, T(1000), E, T(1), E >>,
      drops |-> 0, tod0 |-> 43200, ntp |-> FALSE, left |-> -1,
      card |-> Blank ]

\* pulses shortly before millis() overflows
Wrap ==
    [ script |-> << T(ULongMod - 10000), E, T(3000), E, T(1000), T(2000) >>,
      drops |-> 0, tod0 |-> 43200, ntp |-> FALSE, left |-> -1,
      card |-> Blank ]

\* millis() overflows between the second pulse and the third
Rollover ==
    [ script |-> << T(ULongMod - 6000), E, T(3000), E, T(4000), E >>,
      drops |-> 0, tod0 |-> 43200, ntp |-> FALSE, left |-> -1,
      card |-> Blank ]

\* connections fail and are lost
Flaky ==
    [ script |-> << E, T(30000), T(1000), E >>,
      drops |-> MaxDrops, tod0 |-> 43200, ntp |-> FALSE, left |-> -1,
      card |-> Blank ]

\* commands arrive between pulses
Commanded ==
    [ script |-> << E, C, E >>,
      drops |-> 0, tod0 |-> 43200, ntp |-> FALSE, left |-> -1,
      card |-> Blank ]

\* power-on 18 s before the scheduled minute
Midnight ==
    [ script |-> << E, T(30000), E, T(60000) >>,
      drops |-> 0, tod0 |-> 86382, ntp |-> TRUE, left |-> -1,
      card |-> Blank ]

\* power-on 18 s before the scheduled minute, connections fail and are lost,
\* and a command arrives within the scheduled minute
Outage ==
    [ script |-> << E, T(30000), C >>,
      drops |-> MaxDrops, tod0 |-> 86382, ntp |-> TRUE, left |-> -1,
      card |-> Blank ]

\* the broker is lost and the connection attempt that follows fails as well
Unplugged ==
    [ script |-> << E >>,
      drops |-> MaxDrops + 1, tod0 |-> 43200, ntp |-> FALSE, left |-> -1,
      card |-> Blank ]

\* no card in the slot
NoCard ==
    [ script |-> << E, T(1000), E, C >>,
      drops |-> 0, tod0 |-> 43200, ntp |-> FALSE, left |-> 0,
      card |-> Blank ]

\* Files an earlier run of the device has left on the card.
ConfigFile(version, correction, set, ppk) ==
    << [ok |-> TRUE,
        cfg |-> << [ structureVersion |-> version,
                     pulseTimeCorrection |-> correction,
                     dataFileSetNumber |-> set,
                     pulse_per_kWh |-> ppk ] >>] >>
DataFile(total, sub) == [ok |-> TRUE, pulseTotal |-> total, pulseSubTotal |-> sub]
WritesFile(n) == [ok |-> TRUE, n |-> n]

\* power-on with the card of an earlier run of this build: data file set 1 is
\* the configured one and holds the counters of channel 0
Restarted ==
    [ script |-> << E >>,
      drops |-> 0, tod0 |-> 43200, ntp |-> FALSE, left |-> -1,
      card |-> [ cfg |-> ConfigFile(ExpectedVersion, 25, 1,
                                    private_default_pulse_per_kWh),
                 dirs |-> {0, 1},
                 data |-> (<< 0, 0 >> :> DataFile(4, 4))
                          @@ (<< 1, 0 >> :> DataFile(7, 3)),
                 writes |-> (0 :> WritesFile(4)) @@ (1 :> WritesFile(3)) ] ]

\* power-on with a card whose configuration was written by a build with
\* another structure version; data file sets 0 and 1 hold counters
Replaced ==
    [ script |-> << E >>,
      drops |-> 0, tod0 |-> 43200, ntp |-> FALSE, left |-> -1,
      card |-> [ cfg |-> ConfigFile(ExpectedVersion - 100, 25, 1,
                                    [c \in Chan |-> 500]),
                 dirs |-> {0, 1},
                 data |-> (<< 0, 0 >> :> DataFile(4, 4))
                          @@ (<< 1, 0 >> :> DataFile(7, 3)),
                 writes |-> (0 :> WritesFile(4)) @@ (1 :> WritesFile(3)) ] ]

\* power-on with a card whose data file set has been written more than
\* MAX_NUMBER_OF_WRITES times
Worn ==
    [ script |-> << E >>,
      drops |-> 0, tod0 |-> 43200, ntp |-> FALSE, left |-> -1,
      card |-> [ cfg |-> ConfigFile(ExpectedVersion, 0, 0,
                                    private_default_pulse_per_kWh),
                 dirs |-> {0},
                 data |-> << 0, 0 >> :> DataFile(MAX_NUMBER_OF_WRITES + 1, 9),
                 writes |-> 0 :> WritesFile(MAX_NUMBER_OF_WRITES + 1) ] ]

\* power-on with a card whose data file set 0 has been written
\* MAX_NUMBER_OF_WRITES times and on which the directory of set 1 is there
\* already, so that SD.mkdir fails
Full ==
    [ script |-> << E, T(1000), E, T(1000), E >>,
      drops |-> 0, tod0 |-> 43200, ntp |-> FALSE, left |-> -1,
      card |-> [ cfg |-> ConfigFile(ExpectedVersion, 0, 0,
                                    private_default_pulse_per_kWh),
                 dirs |-> {0, 1},
                 data |-> << 0, 0 >> :> DataFile(MAX_NUMBER_OF_WRITES, 9),
                 writes |-> 0 :> WritesFile(MAX_NUMBER_OF_WRITES) ] ]

\* the card accesses setup() makes on a blank card
SetupAccesses == NoOfChannels + 8

\* a blank card that stops working while the first data file is written
Dying ==
    [ script |-> << E, T(1000), E >>,
      drops |-> 0, tod0 |-> 43200, ntp |-> FALSE, left |-> SetupAccesses + 1,
      card |-> Blank ]

Scenarios == {Steady, Bounce, Wrap, Rollover, Flaky, Commanded, Midnight, Outage,
              Unplugged, NoCard, Restarted, Replaced, Worn, Full, Dying}

Init == \E e \in Scenarios : PowerOn(e, e.left)

Loop ==
    \/ LoopWiFi
    \/ LoopMQTT
    \/ LoopService
    \/ DrainEnter
    \/ DrainTest
    \/ DrainCond
    \/ DrainPower
    \/ DrainLength
    \/ DrainCount
    \/ DrainLoad
    \/ DrainStore
    \/ DecayEnter
    \/ DecayIter
    \/ LoopSched

World ==
    \/ \E c \in Chan : ISR(c)
    \/ Tick
    \/ WiFiLost
    \/ MqttLost

Next == Setup \/ Loop \/ World

Spec == Init /\ [][Next]_vars

(***************************************************************************)
(* The device left alone.  Silence: two pulses a second apart, a check     *)
(* that comes late, and then a silence long enough for every channel's     *)
(* estimate to fall below MIN_CONSUMPTION.  Wrap: the silence begins just  *)
(* before millis() overflows.  loop() is called again whenever it returns *)
(* and the timer keeps counting, hence the fairness conditions.  Setup and *)
(* every step of Loop are always possible at their position and change pc  *)
(* or GlobalIRQ_PIN_index, and no step of World changes either, so weak    *)
(* fairness of Setup \/ Loop is weak fairness of Turn, which TLC evaluates *)
(* without running the storage code once more for every state.             *)
(***************************************************************************)
Silence ==
    [ script |-> << E, T(1000), E, T(5000), T(1500000) >>,
      drops |-> MaxDrops, tod0 |-> 43200, ntp |-> FALSE, left |-> -1,
      card |-> Blank ]

\* Days of an idle device with WiFi, broker and time server at hand, powered
\* on at second tod0 of the day: nothing happens but the time checks, each
\* made when it is due.
Day(tod0) ==
    [ script |-> [i \in 1 .. MaxSleeps |-> Z],
      drops |-> 0, tod0 |-> tod0, ntp |-> TRUE, left |-> -1,
      card |-> Blank, days |-> 2 ]
DayStarts == {30, 60, 61, 12345, 43200, 86339, 86385, 86399}

InitLive == \E e \in {Silence, Wrap} : PowerOn(e, e.left)

\* a device in use: two pulses a second apart, connections fail and are lost
Evening ==
    [ script |-> << E, T(1000), E >>,
      drops |-> MaxDrops, tod0 |-> 43200, ntp |-> TRUE, left |-> -1,
      card |-> Blank ]

\* power-on a minute before the scheduled time with WiFi and no answer of
\* the time server; the answer comes ten seconds later
S(d) == [kind |-> "tick", d |-> d, sync |-> TRUE]
Unsynced ==
    [ script |-> << T(5000), S(5000), Z, Z, Z, Z >>,
      drops |-> 0, tod0 |-> 86340, ntp |-> FALSE, left |-> -1,
      card |-> Blank ]

\* a command arrives at the connected device, and then a pulse
Reannounced ==
    [ script |-> << C, E >>,
      drops |-> 0, tod0 |-> 43200, ntp |-> TRUE, left |-> -1,
      card |-> Blank ]

InitDays ==
    \E e \in {Day(s) : s \in DayStarts} \cup {Evening, Unsynced, Reannounced} :
        PowerOn(e, e.left)

Positions == {"setup", "wifi", "mqtt", "service", "drain", "dTest", "dCond",
              "dPower", "dLength", "dCount", "dLoad", "dStore", "decay",
              "check", "sched"}

Turn == pc' \in Positions /\ GlobalIRQ_PIN_index' \in 0 .. NoOfChannels

SpecLive ==
    /\ InitLive
    /\ [][Next]_vars
    /\ WF_<< pc, GlobalIRQ_PIN_index >>(Turn)
    /\ WF_vars(Tick)

\* The days of the idle device, and the evening of the device in use, under
\* the same fairness.
SpecDays ==
    /\ InitDays
    /\ [][Next]_vars
    /\ WF_<< pc, GlobalIRQ_PIN_index >>(Turn)
    /\ WF_vars(Tick)

\* Setup or a step of Loop is possible in every state.
LoopNeverBlocks == ENABLED (Setup \/ Loop)

(***************************************************************************)
(* Properties.                                                             *)
(***************************************************************************)
Total(c)    == meterData[c].pulseTotal
SubTotal(c) == meterData[c].pulseSubTotal

\* the steps of loop() the properties speak about
Counting         == pc = "dCount" /\ pc' = "dLoad"
Checking         == pc = "check" /\ GlobalIRQ_PIN_index' = GlobalIRQ_PIN_index + 1
Serving          == pc = "service" /\ pc' = "drain"
SetTotalServed   == Serving /\ out' # << >> /\ out'[1].e = "state"
ResetServed      == Serving /\ out' # << >> /\ out'[1].e = "sheet"
ScheduleReached  == pc = "sched" /\ pc' = "wifi" /\ NextTimeCheck = 0
WiFiAttempted    == pc = "wifi" /\ out' # << >> /\ out'[1].e = "WiFi.begin"
MQTTAttempted    == pc = "mqtt" /\ out' # << >> /\ out'[1].e = "mqtt.connect"

\* C1: a channel whose flag is found set at the drain step is counted: its
\* total and its subtotal both grow by exactly 1, whatever the time since the
\* previous pulse, connected or not, with or without a working card; nothing
\* else in the drain changes the counters.
DrainCountsOne ==
    [][ /\ (pc = "dTest" /\ pc' # pc /\ IRQ_PIN_index \in IRQ_PINs_stored)
             => pc' = "dCond"
        /\ (pc \in {"dCond", "dPower", "dLength"} /\ pc' # pc)
             => /\ pc' \in {"dPower", "dLength", "dCount"}
                /\ IRQ_PIN_index' = IRQ_PIN_index
                /\ meterData' = meterData
        /\ Counting
             => /\ Total(IRQ_PIN_index)' = Total(IRQ_PIN_index) + 1
                /\ SubTotal(IRQ_PIN_index)' = SubTotal(IRQ_PIN_index) + 1
                /\ \A c \in Chan \ {IRQ_PIN_index} : meterData'[c] = meterData[c]
      ]_vars

\* C1 witness: a pulse has been counted with no card and no connection
CountedOffline ==
    /\ pc = "dLoad"
    /\ SD_Failed
    /\ ~esp32Connected
    /\ Total(IRQ_PIN_index) = 1
    /\ SubTotal(IRQ_PIN_index) = 1

\* C2: a lifetime total gets smaller only when a set-total command is served,
\* and then only the total of the channel the command names.
TotalNeverDecreases ==
    [][ \A c \in Chan :
          Total(c)' < Total(c) => SetTotalServed /\ out'[1].ch = c ]_vars

\* C2 witness: a set-total command has lowered the total of a channel that
\* had counted a pulse
TotalSetBack ==
    /\ pc = "drain"
    /\ out # << >>
    /\ out[1].e = "state"
    /\ out[1].ch \in Chan
    /\ Total(out[1].ch) = 0
    /\ SubTotal(out[1].ch) > 0

\* C3: after the scheduled reset and after a reset-subtotal command every
\* subtotal is 0; no other step makes a subtotal smaller.
SubtotalsResetOnly ==
    [][ /\ (ScheduleReached \/ ResetServed) => \A c \in Chan : SubTotal(c)' = 0
        /\ ~(ScheduleReached \/ ResetServed)
             => \A c \in Chan : SubTotal(c)' >= SubTotal(c)
      ]_vars

\* C3 witness: the schedule has zeroed the subtotal of a channel that had
\* counted a pulse
SubtotalsZeroedOnSchedule ==
    /\ pc = "wifi"
    /\ secondsToNextTimeCheck = SNOOZE
    /\ out # << >>
    /\ out[1].e = "sheet"
    /\ \E c \in Chan : Total(c) > 0
    /\ \A c \in Chan : SubTotal(c) = 0

\* C4: no WiFi and no MQTT connection attempt is made in a pass that finds a
\* pending flag at the gate, and every flag found pending at the gate is
\* drained by the end of the drain step of that pass.
PulsesBeforeConnections ==
    [][ /\ (WiFiAttempted \/ MQTTAttempted) => IRQ_PINs_stored = {}
        /\ (pc' = "decay" /\ pc # "decay") => hist.gate \subseteq hist'.drained
      ]_vars

\* C4 witness: WiFi was down and due for an attempt, a flag was pending at
\* the gate, no attempt was made and the pulse has been drained
DrainedInsteadOfConnecting ==
    /\ pc = "decay"
    /\ hist.gate # {}
    /\ hist.gate \subseteq hist.drained
    /\ ~wifiUp
    /\ WiFiConnectPostpone = 0
    /\ hist.wifiFailAt = -1

\* C5: after an attempt on a transport has failed at second T, the next
\* attempt on that transport is made when the clock is later than T + 30.
BackoffRespected ==
    [][ /\ (WiFiAttempted /\ hist.wifiFailAt >= 0)
             => sec > hist.wifiFailAt + WIFI_CONNECT_POSTPONE
        /\ (MQTTAttempted /\ hist.mqttFailAt >= 0)
             => sec > hist.mqttFailAt + MQTT_CONNECT_POSTPONE
      ]_vars

\* C5 witness: an MQTT attempt after a failed one
RetriedAfterBackoff ==
    /\ pc = "service"
    /\ out # << >>
    /\ out[1].e = "mqtt.connect"
    /\ hist.mqttFailAt >= 0
    /\ sec > hist.mqttFailAt + MQTT_CONNECT_POSTPONE

\* C6: the flag of a channel is cleared by the drain of that channel and by
\* nothing else, so a signal on channel j taken while the loop processes and
\* clears channel i is still pending when the loop comes to j.
FlagClearedOnlyByItsDrain ==
    [][ \A j \in Chan :
          (j \in IRQ_PINs_stored /\ j \notin IRQ_PINs_stored')
            => (pc = "dStore" /\ IRQ_PIN_index = j) ]_vars

\* C7: the slot holds the timestamp of the latest edge; a drain that finds
\* two or more edges signalled since the channel was last counted counts 1,
\* takes the timestamp of the latest edge and leaves the flag clear.
EdgesMergeIntoOneCount ==
    [][ /\ \A c \in Chan : millsTimeStamp'[c] = hist'.lastEdge[c]
        /\ (Counting /\ hist.fresh[IRQ_PIN_index] >= 2)
             => /\ Total(IRQ_PIN_index)' = Total(IRQ_PIN_index) + 1
                /\ SubTotal(IRQ_PIN_index)' = SubTotal(IRQ_PIN_index) + 1
                /\ metaData'[IRQ_PIN_index].pulseTimeStamp = hist.lastEdge[IRQ_PIN_index]
        /\ (pc = "dStore" /\ pc' # pc) => IRQ_PIN_index \notin IRQ_PINs_stored'
      ]_vars

\* C7 witness: two edges a second apart have been counted as one pulse
TwoEdgesOneCount ==
    /\ pc = "dLoad"
    /\ hist.merged[IRQ_PIN_index] >= 2
    /\ Total(IRQ_PIN_index) = 1
    /\ metaData[IRQ_PIN_index].pulseTimeStamp = hist.lastEdge[IRQ_PIN_index]
    /\ metaData[IRQ_PIN_index].pulseTimeStamp >= BootMillis + 1000

\* C8: when a pulse with timestamp t is counted on a channel whose previous
\* timestamp p has 0 < p < t, the power computed (and published, if connected)
\* is round((3600000 / (t - p + correction)) / pulse_per_kWh * 1000) and the
\* stored interval is t - p + correction.
RateFromDrainedTimestamp ==
    [][ LET c == IRQ_PIN_index
            p == metaData[c].pulseTimeStamp
            t == metaData'[c].pulseTimeStamp
            interval == t - p + interfaceConfig.pulseTimeCorrection
            power == Watt(interval, interfaceConfig.pulse_per_kWh[c])
        IN  (Counting /\ 0 < p /\ p < t)
              => /\ watt_consumption = power
                 /\ metaData'[c].pulseLength = interval
                 /\ esp32Connected => out'[Len(out')].power = power
      ]_vars

\* C9: when the pulse time check examines a channel with interval L > 0 and
\* timestamp p <= now, it fires exactly when now > p + 2 * L; the power is
\* computed from now - p + correction and, if it is not below MIN_CONSUMPTION,
\* published with a negative sign, and the interval becomes 2 * L.
DecaysExactlyWhenOverdue ==
    [][ LET c == GlobalIRQ_PIN_index
            p == metaData[c].pulseTimeStamp
            L == metaData[c].pulseLength
            power == Watt(timeStamp - p + interfaceConfig.pulseTimeCorrection,
                          interfaceConfig.pulse_per_kWh[c])
            published == \E k \in 1 .. Len(out') :
                           out'[k].e = "state" /\ out'[k].ch = c
        IN  (Checking /\ L > 0 /\ p <= timeStamp)
              => IF timeStamp > p + 2 * L
                 THEN power >= MIN_CONSUMPTION
                        => /\ metaData'[c].pulseLength = 2 * L
                           /\ esp32Connected
                                => published /\ out'[Len(out')].power = -1 * power
                 ELSE metaData'[c].pulseLength = L /\ ~published
      ]_vars

\* C10: a pulse time check that computes less than MIN_CONSUMPTION publishes
\* 0 (if connected) and sets the interval to 0; after that no pulse time
\* check publishes for the channel until a pulse has been counted on it.
FloorSilences ==
    [][ LET c == GlobalIRQ_PIN_index
            m == metaData[c]
            power == Watt(U(timeStamp - m.pulseTimeStamp
                            + interfaceConfig.pulseTimeCorrection),
                          interfaceConfig.pulse_per_kWh[c])
            published == \E k \in 1 .. Len(out') :
                           out'[k].e = "state" /\ out'[k].ch = c
        IN  Checking
              => /\ ( /\ m.pulseLength > 0
                      /\ m.pulseTimeStamp <= timeStamp
                      /\ Overdue(m, timeStamp)
                      /\ power < MIN_CONSUMPTION )
                      => /\ metaData'[c].pulseLength = 0
                         /\ esp32Connected
                              => published /\ out'[Len(out')].power = 0
                 /\ hist.zeroed[c] => ~published
      ]_vars

\* C10 witness: the estimate fell below the floor, 0 was published and the
\* interval is 0
FlooredToZero ==
    /\ pc = "check"
    /\ out # << >>
    /\ out[Len(out)].e = "state"
    /\ out[Len(out)].power = 0
    /\ hist.zeroed[out[Len(out)].ch]
    /\ metaData[out[Len(out)].ch].pulseLength = 0
    /\ metaData[out[Len(out)].ch].pulseTimeStamp > 0

\* the pulse time check of channel c publishes a power in this step
DecayPublished(c) ==
    /\ Checking
    /\ GlobalIRQ_PIN_index = c
    /\ \E k \in 1 .. Len(out') : out'[k].e = "state" /\ out'[k].ch = c

NoMoreEdges == \A k \in 1 .. Len(env.script) : env.script[k].kind # "edge"

\* What does hold of the estimates of a channel that gets no more pulses: an
\* estimate is never larger in magnitude than the one before it, nothing
\* follows a published 0, and the sequence ends: the interval becomes 0.
DecayNeverGrowsAndEnds ==
    /\ [][ \A c \in Chan :
             (DecayPublished(c) /\ hist.decay[c] >= 0)
                => /\ hist.decay[c] > 0
                   /\ -1 * out'[Len(out')].power <= hist.decay[c] ]_vars
    /\ \A c \in Chan :
         (NoMoreEdges /\ metaData[c].pulseLength > 0)
            ~> (metaData[c].pulseLength = 0)

\* a sequence of estimates has ended with a published 0
DecayedToZero ==
    /\ pc = "check"
    /\ out # << >>
    /\ out[Len(out)].e = "state"
    /\ out[Len(out)].power = 0
    /\ hist.decay[out[Len(out)].ch] = 0
    /\ hist.zeroed[out[Len(out)].ch]
    /\ metaData[out[Len(out)].ch].pulseLength = 0
    /\ NoMoreEdges

\* C11: for a channel with a non-zero interval that gets no more pulses, each
\* estimate the pulse time check publishes is smaller in magnitude than the
\* one before it, the sequence ends (the interval becomes 0), and the step
\* that ends it publishes 0 (the device being connected).
DecayShrinksToZero ==
    /\ [][ \A c \in Chan :
             /\ (DecayPublished(c) /\ hist.decay[c] >= 0)
                  => -1 * out'[Len(out')].power < hist.decay[c]
             /\ ( /\ Checking /\ GlobalIRQ_PIN_index = c /\ esp32Connected
                  /\ metaData[c].pulseLength > 0
                  /\ metaData'[c].pulseLength = 0 )
                  => DecayPublished(c) /\ out'[Len(out')].power = 0
         ]_vars
    /\ \A c \in Chan :
         (NoMoreEdges /\ metaData[c].pulseLength > 0)
            ~> (metaData[c].pulseLength = 0)

(***************************************************************************)
(* Storage.                                                                *)
(***************************************************************************)
\* setup() runs in this step
Booting == pc = "setup" /\ pc' = "wifi"

\* what setup() finds on the card: whether the configuration file can be
\* read, its version tag and its data file set, and whether a data file set
\* holds a data file of some channel
ConfigReadable   == sdLeft # 0 /\ sdCfg # << >> /\ sdCfg[1].ok
ConfigVersion    == IF ConfigReadable THEN sdCfg[1].cfg[1].structureVersion ELSE 0
ConfigSet        == sdCfg[1].cfg[1].dataFileSetNumber
HasRecord(set)   == \E c \in Chan : << set, c >> \in DOMAIN sdData
ActiveSet        == interfaceConfig.dataFileSetNumber

\* C12: when the version tag of the configuration read at power-on is not
\* the expected one, the data file set that setConfigurationDefaults selects
\* is the lowest-numbered one that holds no data file of any channel.
ResetSelectsUnusedSet ==
    [][ (Booting /\ ConfigVersion # ExpectedVersion)
          => /\ ~HasRecord(ActiveSet')
             /\ \A g \in 0 .. ActiveSet' - 1 : HasRecord(g) ]_vars

\* C13: when the version tag of the configuration read at power-on is not
\* the expected one (no configuration read included), setup() leaves
\* pulseTimeCorrection 0, every pulse_per_kWh at its default and the version
\* tag at the expected value.
MismatchRestoresDefaults ==
    [][ (Booting /\ ConfigVersion # ExpectedVersion)
          => /\ interfaceConfig'.pulseTimeCorrection = 0
             /\ interfaceConfig'.pulse_per_kWh = private_default_pulse_per_kWh
             /\ interfaceConfig'.structureVersion = ExpectedVersion ]_vars

\* C13 witness: setup() has read a configuration with another version tag,
\* a correction of 25 and other pulse_per_kWh values, and has set the defaults
DefaultsAfterMismatch ==
    /\ pc = "wifi"
    /\ env.card.cfg # << >>
    /\ env.card.cfg[1].cfg[1].structureVersion # ExpectedVersion
    /\ env.card.cfg[1].cfg[1].pulseTimeCorrection # 0
    /\ env.card.cfg[1].cfg[1].pulse_per_kWh # private_default_pulse_per_kWh
    /\ interfaceConfig.pulseTimeCorrection = 0
    /\ interfaceConfig.pulse_per_kWh = private_default_pulse_per_kWh
    /\ interfaceConfig.structureVersion = ExpectedVersion

\* C14: when the data file set named by the configuration read at power-on
\* already holds a data file of some channel, setup() moves on to the next
\* data file set and leaves every counter at 0.
BootBeginsNewSet ==
    [][ ( /\ Booting
          /\ ConfigVersion = ExpectedVersion
          /\ \E c \in Chan : /\ << ConfigSet, c >> \in DOMAIN sdData
                              /\ sdData[<< ConfigSet, c >>].ok )
          => /\ ActiveSet' = ConfigSet + 1
             /\ \A c \in Chan : Total(c)' = 0 /\ SubTotal(c)' = 0 ]_vars

SetNumberNeverDecreases ==
    [][ IF Booting
        THEN ConfigReadable => ActiveSet' >= ConfigSet
        ELSE ActiveSet' >= ActiveSet ]_vars

\* C17: once a storage fault has been recorded (SD_Failed), no call that
\* writes to the card is made any more: no open for writing, no write, no
\* mkdir.
NoWriteAfterFault == ~sdLate

\* C18: no step of loop() and no interrupt clears a bit of errorIndex or
\* clears SD_Failed.
ErrorsOnlyAccumulate ==
    [][ /\ errorIndex \subseteq errorIndex'
        /\ SD_Failed => SD_Failed' ]_vars

\* C18 witness: two faults were recorded while a pulse was stored, the list
\* was published, a second pulse was counted, and both bits are still set
ErrorsKept ==
    /\ pc = "dLoad"
    /\ errorIndex = {5, 6}
    /\ previousErrorIndex = {5, 6}
    /\ Total(IRQ_PIN_index) = 2

\* C19: when SD.begin fails, setup() leaves errorIndex with bit 0 and no
\* other bit and every counter 0, and a pulse counted afterwards is counted
\* in memory and leaves the card alone.
BeginFailureSetsOneBit ==
    [][ /\ (Booting /\ sdLeft = 0)
             => /\ errorIndex' = {0}
                /\ \A c \in Chan : Total(c)' = 0 /\ SubTotal(c)' = 0
        /\ (Counting /\ 0 \in errorIndex)
             => /\ Total(IRQ_PIN_index)' = Total(IRQ_PIN_index) + 1
                /\ UNCHANGED << sdCfg, sdDirs, sdData, sdWrites >> ]_vars

\* C20: a sketch_version message lists exactly the bits of errorIndex, and
\* a request to the sheet carries the SD-Error tag exactly when errorIndex is
\* not empty at the time the request is made.
FaultsAreReported ==
    [][ \A k \in 1 .. Len(out') :
          /\ out'[k].e = "sketch_version" => out'[k].data = errorIndex'
          /\ out'[k].e = "sheet" => (out'[k].data[3] <=> errorIndex # {}) ]_vars

\* C20 witness: the message published at the end of loop() lists the two
\* faults recorded when the card stopped working
FaultsListed ==
    /\ pc = "wifi"
    /\ out # << >>
    /\ out[Len(out)].e = "sketch_version"
    /\ out[Len(out)].data = {5, 6}
    /\ errorIndex = {5, 6}

\* the step of loop() that hands a message of the given kind to mqttCallback
\* (hist.heard is the last message a client has published to the device)
Heard(kind) == Serving /\ env' # env /\ hist'.heard.kind = kind

\* a behaviour of the idle device, the day at power-on, and the seconds since
\* the scheduled time was last reached
Daily         == "days" \in DOMAIN env
PowerOnDay    ==
    (env.tod0 + 86400 - (SCHEDULE_HOUR * 3600 + SCHEDULE_MINUTE * 60)) \div 86400
SinceSchedule ==
    (env.tod0 + sec + 86400 - (SCHEDULE_HOUR * 3600 + SCHEDULE_MINUTE * 60)) % 86400

\* C21: with the time available and loop() making every time check when it
\* is due, from any time of day the time checks, each half the remaining
\* seconds plus 15 after the one before, come to one inside the scheduled
\* minute and none passes it: once the scheduled minute of a day is over the
\* reset has fired for that day, and it fires on each of the days.
SchedulerReachesEveryDay ==
    /\ [](Daily /\ Occurrence > PowerOnDay /\ SinceSchedule >= 60
            => hist.fired = Occurrence)
    /\ (Daily ~> (Daily /\ hist.fired >= PowerOnDay + env.days))

\* C21 witness: powered on at 03:25:45, the device has fired the reset of
\* the second midnight
SecondDayFired ==
    /\ Daily
    /\ env.tod0 = 12345
    /\ hist.fired = PowerOnDay + 2
    /\ secondsToNextTimeCheck = SNOOZE

\* C22: the pass of loop() that finds secondsToNextTimeCheck 0 zeroes every
\* subtotal, writes the zeroed counters to the data files if the card works,
\* and sets secondsToNextTimeCheck to the cool-down; and it does so at most
\* once for each day's scheduled minute, whatever connections are lost and
\* made again.  (hist.fired is the day of the latest such pass.)
TriggerOncePerOccurrence ==
    [][ ScheduleReached
          => /\ \A c \in Chan :
                  /\ SubTotal(c)' = 0
                  /\ (~SD_Failed' /\ sdLeft = -1)
                       => sdData'[<< ActiveSet', c >>] = DataFile(Total(c), 0)
             /\ secondsToNextTimeCheck' = SNOOZE
             /\ hist.fired # Occurrence ]_vars

\* the totals and the subtotals a report request carries
Reported(ev) == << ev.data[1], ev.data[2] >>
Counters == << [c \in Chan |-> Total(c)], [c \in Chan |-> SubTotal(c)] >>

\* C23: every reset of the subtotals, by the schedule or by the command, goes
\* with a request to the spreadsheet endpoint that is made before the
\* subtotals are zeroed: it carries the totals and the subtotals as they were
\* before the reset.
ResetIsReported ==
    [][ (ScheduleReached \/ Heard("subtotal_reset"))
          => /\ out' # << >>
             /\ out'[1].e = "sheet"
             /\ Reported(out'[1]) = Counters ]_vars

\* a step of loop() whose request to the spreadsheet endpoint has failed
ReportFailed == \E i \in 1 .. Len(out') : out'[i].e = "sheet" /\ ~out'[i].sent

\* C24: a request to the spreadsheet endpoint that fails changes nothing
\* else: the totals are as they were, a reset zeroes every subtotal all the
\* same, the scheduled reset sets the cool-down all the same, and a report on
\* connection or on command leaves the counters' and the schedule's other
\* state to the step that made it.
ReportFaultHarmless ==
    [][ ReportFailed
          => /\ \A c \in Chan : Total(c)' = Total(c)
             /\ (ScheduleReached \/ Heard("subtotal_reset"))
                  => \A c \in Chan : SubTotal(c)' = 0
             /\ ScheduleReached => secondsToNextTimeCheck' = SNOOZE
             /\ Heard("subtotal_reset") => UNCHANGED schedVars
             /\ pc = "wifi"
                  => /\ UNCHANGED meterData
                     /\ secondsToNextTimeCheck' =
                          getsecondsToNextTimeCheck(env.ntp, now) ]_vars

\* C24 witness: the scheduled request has failed, the subtotal of a channel
\* that had counted a pulse is 0 and the cool-down is set
ResetDespiteFailedReport ==
    /\ pc = "wifi"
    /\ secondsToNextTimeCheck = SNOOZE
    /\ out # << >>
    /\ out[1].e = "sheet" /\ ~out[1].sent
    /\ out[1].data[2][0] > 0
    /\ Total(0) > 0 /\ SubTotal(0) = 0

\* the discovery documents of channel c among the messages of the last step
Announcements(c) ==
    { i \in 1 .. Len(out') : out'[i].e = "config" /\ out'[i].ch = c }

\* C25: configurationPublished[c] is false at power-on; it becomes true only
\* in a step that has published the three discovery documents of c, each of
\* them successfully; it becomes false again only by the command on the
\* status topic; and while it is true the documents of c are not published.
AnnouncedOnlyWhenPublished ==
    [][ \A c \in Chan :
          /\ pc = "setup" => ~configurationPublished[c]
          /\ (~configurationPublished[c] /\ configurationPublished'[c])
               => /\ Cardinality(Announcements(c)) = 3
                  /\ \A i \in Announcements(c) : out'[i].sent
          /\ (configurationPublished[c] /\ ~configurationPublished'[c])
               => Heard("status")
          /\ configurationPublished[c] => Announcements(c) = {} ]_vars

PowerUpUntilDelivered == GoogleSheetMessageIndex = 2 => hist.delivered

\* C28: while the device is connected to the broker, true published to its
\* restart topic restarts it: the device is back at power-on, about to run
\* setup().  (hist.restart counts the publications to the restart topic.)
RestartCommandRestarts ==
    [][ hist'.restart > hist.restart => pc' = "setup" ]_vars

\* C30: a pass of loop() makes the pulse time check for at most one channel
\* and moves GlobalIRQ_PIN_index on by one channel.  (hist.checks counts the
\* channels checked since the pass entered the pulse time check.)
OneCheckPerPass == hist.checks <= 1

\* the counters of channel c are in its data file, if the card works
Persisted(c) ==
    (~SD_Failed' /\ sdLeft = -1)
      => sdData'[<< ActiveSet', c >>] = DataFile(Total(c)', SubTotal(c)')

\* C32: the drain of a pulse with timestamp t on a channel whose
\* pulseTimeStamp is 0 or not before t computes no rate: it goes straight to
\* the counting with power 0 and pulseLength as it was; the counting then
\* publishes power 0, sets pulseTimeStamp to t, adds 1 to both counters and
\* writes them to the data file, and leaves pulseLength alone.
NoRateWithoutBaseline ==
    [][ LET c == IRQ_PIN_index
        IN  /\ ( /\ pc = "dCond" /\ pc' # pc
                 /\ ~( /\ metaData[c].pulseTimeStamp > 0
                       /\ metaData[c].pulseTimeStamp < millsTimeStamp[c] ) )
                 => /\ pc' = "dCount"
                    /\ watt_consumption' = 0
                    /\ UNCHANGED metaData
            /\ (Counting /\ watt_consumption = 0)
                 => /\ metaData'[c].pulseTimeStamp = millsTimeStamp[c]
                    /\ metaData'[c].pulseLength = metaData[c].pulseLength
                    /\ Total(c)' = U(Total(c) + 1)
                    /\ SubTotal(c)' = U(SubTotal(c) + 1)
                    /\ Persisted(c)
                    /\ esp32Connected
                         => /\ Len(out') = 1
                            /\ out'[1].e = "state" /\ out'[1].ch = c
                            /\ out'[1].power = 0 ]_vars

\* C32 witness: the third pulse of a channel, stamped 3000 ms after millis()
\* has overflowed, has been counted and published with power 0; the
\* pulseLength of 3000 ms of the two pulses before is still there
CountedAcrossOverflow ==
    /\ pc = "dLoad"
    /\ env = [Rollover EXCEPT !.script = << >>]
    /\ metaData[IRQ_PIN_index] = [pulseTimeStamp |-> 3000, pulseLength |-> 3000]
    /\ Total(IRQ_PIN_index) = 3
    /\ out # << >> /\ out[1].e = "state" /\ out[1].power = 0

\* C33: the drain comes before the pulse time check: no channel is checked
\* while a flag is set in IRQ_PINs_stored; a flag set during the checks of a
\* pass ends them, GlobalIRQ_PIN_index staying where it is; and the checks of
\* a later pass begin at that channel.
DrainBeforeDecay ==
    [][ /\ Checking => IRQ_PINs_stored = {}
        /\ (pc = "check" /\ pc' # pc /\ IRQ_PINs_stored # {})
             => GlobalIRQ_PIN_index' = GlobalIRQ_PIN_index
        /\ (pc = "check" /\ pc' # pc)
             => (IRQ_PINs_stored # {} \/ GlobalIRQ_PIN_index = NoOfChannels)
        /\ GlobalIRQ_PIN_index' # GlobalIRQ_PIN_index
             => \/ Checking
                \/ (pc = "decay" /\ GlobalIRQ_PIN_index = NoOfChannels
                                 /\ GlobalIRQ_PIN_index' = 0)
      ]_vars

\* C33 witness: a pass begins its checks at channel 1, where a pulse had
\* ended the checks of an earlier pass
ChecksResumed ==
    /\ pc = "check"
    /\ hist.checks = 0
    /\ GlobalIRQ_PIN_index = 1
    /\ IRQ_PINs_stored = {}
    /\ \E c \in Chan : Total(c) > 0

\* the attempts that clear esp32Connected, and the one that sets it
WiFiFailed    == WiFiAttempted /\ ~out'[1].sent
MQTTFailed    == MQTTAttempted /\ ~out'[1].sent
MQTTSucceeded == MQTTAttempted /\ out'[1].sent
ServiceFailed == pc = "service" /\ pc' = "drain" /\ esp32Connected /\ ~mqttUp

\* C35: the broker is tried only in a pass that finds WiFi connected;
\* esp32Connected is false at power-on, becomes true only by a successful
\* mqttClient.connect and false by, and only by, a failed WiFi attempt, a
\* failed mqttClient.connect or a failed mqttClient.loop(); and a state
\* message of a pulse or of the pulse time check is published only while
\* esp32Connected is true.
ConnectedFlagDiscipline ==
    [][ /\ MQTTAttempted => wifiUp
        /\ pc = "setup" => ~esp32Connected
        /\ (~esp32Connected /\ esp32Connected') => MQTTSucceeded
        /\ MQTTSucceeded => esp32Connected'
        /\ (esp32Connected /\ ~esp32Connected')
             => (WiFiFailed \/ MQTTFailed \/ ServiceFailed)
        /\ (WiFiFailed \/ MQTTFailed \/ ServiceFailed) => ~esp32Connected'
        /\ \A i \in 1 .. Len(out') :
             out'[i].e = "state" => (esp32Connected /\ esp32Connected')
      ]_vars

\* C35 witness: a pulse is counted and not published, esp32Connected having
\* been cleared by a failed mqttClient.connect after the channel was announced
CountedUnconnected ==
    /\ pc = "dLoad"
    /\ out = << >>
    /\ ~esp32Connected
    /\ hist.mqttFailAt = sec
    /\ configurationPublished[IRQ_PIN_index]

\* the data file of channel c in the configured data file set holds the
\* counters that are in memory
OnCard(c) ==
    /\ << ActiveSet, c >> \in DOMAIN sdData
    /\ sdData[<< ActiveSet, c >>] = DataFile(Total(c), SubTotal(c))

\* C36: with a card that works, whenever a pass of loop() has ended or a
\* command has been handled, every channel whose counters are no longer
\* those of power-on (0 and 0, the card being blank at power-on) has them
\* in its data file of the configured data file set.
WrittenThrough ==
    (pc \in {"wifi", "drain"} /\ env.card = Blank /\ sdLeft = -1 /\ ~SD_Failed)
      => \A c \in Chan : (Total(c) # 0 \/ SubTotal(c) # 0) => OnCard(c)

\* C37: after setup(), numberOfWrites is never above MAX_NUMBER_OF_WRITES + 2,
\* so that the uint16_t does not wrap; a step of loop() raises it by one for
\* each call of writeMeterData it makes (one for a pulse, at most one per
\* channel for a reset) and lowers it only by beginning a new data file set,
\* which sets it to 0; and every pulse written counts.
WriteCounterBounded ==
    [][ pc # "setup" =>
          LET calls == IF Counting THEN 1 ELSE NoOfChannels
          IN  /\ numberOfWrites <= MAX_NUMBER_OF_WRITES + 2
              /\ numberOfWrites' <= MAX_NUMBER_OF_WRITES + 2
              /\ numberOfWrites' > numberOfWrites
                   => /\ numberOfWrites' - numberOfWrites <= calls
                      /\ ~SD_Failed
                      /\ Counting \/ ScheduleReached \/ Heard("subtotal_reset")
              /\ numberOfWrites' < numberOfWrites
                   => /\ numberOfWrites > MAX_NUMBER_OF_WRITES - calls
                      /\ numberOfWrites' < calls
                      /\ ActiveSet' = ActiveSet + 1
                      /\ ActiveSet' \in sdDirs' \ sdDirs
              /\ (Counting /\ ~SD_Failed)
                   => numberOfWrites' = IF ActiveSet' \in sdDirs' \ sdDirs
                                        THEN 0 ELSE numberOfWrites + 1
      ]_vars

\* C37 witness: from MAX_NUMBER_OF_WRITES at power-on, the second pulse has
\* found the directory of the next data file set in the way, and the third
\* pulse is counted with numberOfWrites staying at MAX_NUMBER_OF_WRITES + 2
CounterStopsAtCeiling ==
    /\ pc = "dLoad"
    /\ env = [Full EXCEPT !.script = << >>]
    /\ numberOfWrites = MAX_NUMBER_OF_WRITES + 2
    /\ SD_Failed /\ 3 \in errorIndex
    /\ \E c \in Chan : Total(c) >= 2

\* the globals of main.cpp and the card
device == << IRQ_PINs_stored, millsTimeStamp, metaData, storeVars,
            previousErrorIndex, esp32Connected, configurationPublished, wifiVars,
            mqttVars, schedVars, GlobalIRQ_PIN_index, GoogleSheetMessageIndex >>

\* C38: a set-total command whose topic names a channel that is not one of
\* 0 .. PRIVATE_NO_OF_CHANNELS - 1 is ignored: no counter and no other
\* global changes, no word outside the arrays is written, and nothing is
\* published.
StrayTotalIgnored ==
    [][ (Heard("threshold") /\ hist'.heard.ch \notin Chan)
          => /\ UNCHANGED device
             /\ hist'.stray = hist.stray
             /\ out' = << >>
      ]_vars

\* getLocalTime succeeds
HaveTime == timeSet /\ env.ntp

\* C39: as long as getLocalTime fails the scheduled reset does not fire, and
\* loop() asks for the time again in every pass (a pass that ends without
\* the time leaves secondsToNextTimeCheck at -1 and timeLastCheckedAt at the
\* current second); once getLocalTime succeeds, a pass follows that gets the
\* seconds to the next time check, and with loop() running and time passing
\* the reset of the next scheduled minute fires.
TimeCheckRecovers ==
    /\ [](hist.fired # -1 => HaveTime)
    /\ [][ (pc = "sched" /\ pc' = "wifi" /\ ~HaveTime)
             => (secondsToNextTimeCheck' = NoTime /\ timeLastCheckedAt' = sec)
         ]_vars
    /\ (HaveTime ~> secondsToNextTimeCheck # NoTime)
    /\ ((HaveTime /\ env.tod0 = Unsynced.tod0) ~> hist.fired # -1)

\* C39 witness: the time server answered ten seconds after WiFi was connected,
\* and the reset of the midnight that followed has fired
FiredAfterSync ==
    /\ env.tod0 = Unsynced.tod0
    /\ env.ntp
    /\ hist.fired = PowerOnDay + 1
    /\ \A c \in Chan : SubTotal(c) = 0

\* the last step has published the configurations of channel c
Announced(c) ==
    \E i \in 1 .. Len(out) : out[i].e = "config" /\ out[i].ch = c /\ out[i].sent

\* C40: with loop() running, a channel whose configurationPublished is false
\* while the device is connected to the broker (after power-on, or after a
\* message on the status topic) has its configurations published, unless
\* the connection is lost before; with pulses arriving or with none, on
\* that channel or on another.
EveryChannelAnnounced ==
    \A c \in Chan :
        (esp32Connected /\ mqttUp /\ ~configurationPublished[c])
          ~> (Announced(c) \/ ~(esp32Connected /\ mqttUp))

\* C40 witness: after a message on the status topic the configurations of
\* channel 1 are published again, no pulse having arrived on that channel
AnnouncedAgain ==
    /\ hist.heard.kind = "status"
    /\ hist.told[1] = 2
    /\ Announced(1)
    /\ hist.lastEdge[1] = 0 /\ hist.fresh[1] = 0
    /\ Total(1) = 0

\* C34: when a pulse is counted for which a power was computed, the
\* timestamp stored in pulseTimeStamp is the value of millsTimeStamp[i] from
\* which the power and the pulseLength were computed, also when a further
\* edge on the channel arrives during the drain.  (hist.read holds the values
\* of millsTimeStamp[i] read at lines 660 and 664 of this drain.)
OneTimestampPerDrain ==
    [][ Counting
          => \A used \in hist.read :
               metaData'[IRQ_PIN_index].pulseTimeStamp = used ]_vars

\* the sensor states of channel c among the messages of the last step
States(c) == { i \in 1 .. Len(out') : out'[i].e = "state" /\ out'[i].ch = c }

\* C31: when the pulse time check comes to a channel whose pulseLength is
\* not 0 and whose pulseTimeStamp lies after the clock reading of the pass
\* (millis() has wrapped), it sets pulseLength to 0 and leaves the channel:
\* nothing is published for the channel in that pass.
WrappedIsSkipped ==
    [][ \A c \in Chan :
          ( /\ Checking /\ GlobalIRQ_PIN_index = c
            /\ metaData[c].pulseLength > 0
            /\ metaData[c].pulseTimeStamp > timeStamp )
            => /\ metaData'[c].pulseLength = 0
               /\ States(c) = {} ]_vars

(***************************************************************************)
(* Time.  getsecondsToNextTimeCheck on its own: the local time and the     *)
(* schedule are drawn from the sets below and the function is called once. *)
(***************************************************************************)
ClockHours   == {0, 7, 23}
ClockMinutes == {0, 30, 59}
ClockSeconds == {0, 1, 59}

TimeInputs ==
    [ script : {<< >>}, drops : {0}, tod0 : {0}, ntp : {TRUE}, left : {-1},
      card : {Blank}, asked : {FALSE},
      clock : [h : ClockHours, m : ClockMinutes, s : ClockSeconds],
      target : [h : ClockHours, m : ClockMinutes] ]

InitTime == \E e \in TimeInputs : PowerOn(e, e.left)

AskTime ==
    /\ ~env.asked
    /\ secondsToNextTimeCheck' =
         SecondsToNextTimeCheck(env.clock.h, env.clock.m, env.clock.s,
                                env.target.h, env.target.m)
    /\ env' = [env EXCEPT !.asked = TRUE]
    /\ UNCHANGED << IRQ_PINs_stored, millsTimeStamp, storeVars, loopVars, wifiVars,
                    mqttVars, timeLastCheckedAt, locals, now, wifiUp, mqttUp,
                    timeSet, out, hist >>

SpecTime == InitTime /\ [][AskTime]_vars

\* seconds from the local time of env to the next time the clock shows the
\* schedule of env: 1 .. 86400
SecondsAhead ==
    ( ( (env.target.h * 3600 + env.target.m * 60)
        - (env.clock.h * 3600 + env.clock.m * 60 + env.clock.s) - 1 ) % 86400 ) + 1

\* C29: getsecondsToNextTimeCheck returns 0 exactly when hour and minute of
\* the local time are those of the schedule, and otherwise half the seconds
\* to the next occurrence of the scheduled time, rounded down, plus 15, also
\* when the scheduled time of today has passed.
TimeCheckArithmetic ==
    env.asked
      => IF env.clock.h = env.target.h /\ env.clock.m = env.target.m
         THEN secondsToNextTimeCheck = 0
         ELSE secondsToNextTimeCheck = (SecondsAhead \div 2) + 15

\* C29 witness: at 23:59:59 with the schedule at 07:30 the function has
\* returned half of 7 h 30 min 1 s, plus 15
AskedAfterSchedule ==
    /\ env.asked
    /\ env.clock = [h |-> 23, m |-> 59, s |-> 59]
    /\ env.target = [h |-> 7, m |-> 30]
    /\ secondsToNextTimeCheck = 13515

====
